---------------------------- MODULE Spec2Model ----------------------------
(***************************************************************************)
(* A model of pyArbTools (src/pyArbTools/pyArbTools.py): the instrument    *)
(* classes M8190A, M8195A, VSG and UXG with their waveform validation and  *)
(* quantization (check_wfm), the M8190A resolution-mode bookkeeping        *)
(* (set_resolution / check_resolution), the I/Q interleaver                *)
(* (iq_wfm_combiner), the UXG pulse-descriptor-word encoder                *)
(* (bin_pdw_builder / bin_pdw_file_builder) and the module-level waveform  *)
(* generators (barker_generator, rrc_filter, rc_filter, the modulators     *)
(* and digmod_prbs_generator).                                             *)
(*                                                                         *)
(* Specifications.                                                         *)
(*  - Spec: a program that holds one instrument object and calls its       *)
(*    methods one after the other.                                         *)
(*  - GenSpec: a program that calls the module-level generators.           *)
(*  - ConcSpec: two threads on one M8190A object, one in check_wfm and     *)
(*    one in set_resolution, interleaved between attribute accesses.       *)
(*  - DownloadSpec: a program that calls the download methods; a call is  *)
(*    followed from validation to the last command it sends.  A command   *)
(*    is kept as the transport method and the SCPI keyword, without its   *)
(*    arguments.                                                           *)
(*                                                                         *)
(* Conventions.                                                            *)
(*  - A Python object is a record of its attributes.  An attribute that    *)
(*    has not been assigned yet is <<>>; an assigned one is <<value>>.     *)
(*  - A Python str is a sequence of one-character strings.                 *)
(*  - A float sample is the exact rational num / SampleDen; SampleDen is   *)
(*    a power of two, so binMult * sample is exact in binary floating      *)
(*    point as well.                                                       *)
(*  - An unbounded Python int that does not fit TLC's 32-bit integers is   *)
(*    the set of the positions of its one bits (a "bit set"): 5 = {0, 2}.  *)
(*  - The program holds one instrument object, inst.  A call leaves its    *)
(*    outcome in ret; the caller drops it (DropResult) before the next     *)
(*    call.  Attributes no modelled method reads (fs, cf, refSrc, ...)     *)
(*    are left out, and so is the transport (write / query), except for    *)
(*    the answers that decide an attribute.                                *)
(*  - A complex sample of the generators is a record of its real and       *)
(*    imaginary part in thousandths; a Python dict is a function on its    *)
(*    keys, which are TLA+ strings.                                        *)
(***************************************************************************)
EXTENDS Integers, Sequences, FiniteSets, TLC

VARIABLES
    inst,   \* the instrument object the program holds: its class and attributes
    ret,    \* the outcome of the call just made on it, NoCall between calls
    frames  \* the calls in flight that are followed step by step: where each one
            \* stands and what it has read or sent (chk and set: the two threads
            \* that share an object; dl: a download call)

vars == <<inst, ret, frames>>

(***************************************************************************)
(* Bounds of the model.                                                    *)
(***************************************************************************)
\* Samples are num / SampleDen with SampleDen = 2^SampleBits, num in -SampleDen..SampleDen.
SampleBits == 2
\* iq_wfm_combiner is called with i of length 0..MaxIQ and q of length 0..MaxIQ+1.
MaxIQ == 2
\* check_wfm is called with waveforms of up to minLen + MaxGranSteps * gran samples.
MaxGranSteps == 1
\* A scaled float argument of bin_pdw_builder has FracBits binary fraction digits.
FracBits == 2
\* bin_pdw_builder is called with descriptors that leave the defaults in at most
\* MaxVaried fields.
MaxVaried == 2
\* bin_pdw_file_builder is called with lists of 0..MaxPdws descriptors.
MaxPdws == 2

SampleDen == 2 ^ SampleBits

SampleNums == (0 - SampleDen) .. SampleDen

(***************************************************************************)
(* Python str helpers.                                                     *)
(***************************************************************************)
UpperCase == <<"A","B","C","D","E","F","G","H","I","J","K","L","M",
               "N","O","P","Q","R","S","T","U","V","W","X","Y","Z">>

LowerCase == <<"a","b","c","d","e","f","g","h","i","j","k","l","m",
               "n","o","p","q","r","s","t","u","v","w","x","y","z">>

Digits == <<"0","1","2","3","4","5","6","7","8","9">>

Whitespace == {" ", "\n", "\r", "\t"}

\* str.lower()
LowerChar(c) ==
    IF \E k \in 1..26 : UpperCase[k] = c
    THEN LowerCase[CHOOSE k \in 1..26 : UpperCase[k] = c]
    ELSE c

StrLower(s) == [k \in 1..Len(s) |-> LowerChar(s[k])]

\* str.strip()
StrStrip(s) ==
    LET keep == {k \in 1..Len(s) : s[k] \notin Whitespace}
    IN  IF keep = {} THEN <<>>
        ELSE LET lo == CHOOSE k \in keep : \A j \in keep : k <= j
                 hi == CHOOSE k \in keep : \A j \in keep : j <= k
             IN  SubSeq(s, lo, hi)

\* sub in s
StrContains(s, sub) ==
    \E k \in 0..(Len(s) - Len(sub)) : SubSeq(s, k + 1, k + Len(sub)) = sub

\* s.split(c)[-1]: what follows the last c, or all of s when c does not occur
StrAfterLast(s, c) ==
    LET at == {k \in 1..Len(s) : s[k] = c}
    IN  IF at = {} THEN s
        ELSE SubSeq(s, (CHOOSE k \in at : \A j \in at : j <= k) + 1, Len(s))

IsDecimal(s) == Len(s) > 0 /\ \A k \in 1..Len(s) : \E d \in 1..10 : Digits[d] = s[k]

DigitValue(c) == (CHOOSE d \in 1..10 : Digits[d] = c) - 1

RECURSIVE DecimalValue(_)
DecimalValue(s) ==
    IF s = <<>> THEN 0
    ELSE 10 * DecimalValue(SubSeq(s, 1, Len(s) - 1)) + DigitValue(s[Len(s)])

(***************************************************************************)
(* M8190A: resolution modes.                                               *)
(***************************************************************************)
\* What the instrument may answer to 'trace1:dwidth?': the modes of the M8190A,
\* an interpolation factor the code has no idle granularity for, an interpolated
\* mode without a factor, and an answer that is no mode at all.
DwidthReplies ==
    { <<"W","S","P","\n">>, <<"W","P","R","\n">>,
      <<"I","N","T","X","3","\n">>, <<"I","N","T","X","1","2","\n">>,
      <<"I","N","T","X","2","4","\n">>, <<"I","N","T","X","4","8","\n">>,
      <<"I","N","T","X","6","\n">>, <<"I","N","T","X","\n">>,
      <<"D","A","C","\n">> }

\* The attributes of a M8190A that the resolution mode decides, before __init__
\* has assigned any of them.
FreshM8190A ==
    [cls |-> "M8190A", res |-> <<>>, gran |-> <<>>, minLen |-> <<>>, binMult |-> <<>>,
     binShift |-> <<>>, intFactor |-> <<>>, idleGran |-> <<>>]

\* The idleGran branch of check_resolution (lines 151-156).
IdleGranAfter(obj, factor) ==
    IF factor = 3 THEN <<8>>
    ELSE IF factor = 12 THEN <<2>>
    ELSE IF factor = 24 \/ factor = 48 THEN <<1>>
    ELSE obj.idleGran

\* M8190A.check_resolution: the object after the call and the exception raised,
\* if any ("none" when it returns).  The assignments made before a raise stay.
check_resolution(obj) ==
    IF obj.res = <<"w","p","r">> THEN
        [obj |-> [obj EXCEPT !.gran = <<48>>, !.minLen = <<240>>,
                             !.binMult = <<8191>>, !.binShift = <<2>>],
         err |-> "none"]
    ELSE IF obj.res = <<"w","s","p">> THEN
        [obj |-> [obj EXCEPT !.gran = <<64>>, !.minLen = <<320>>,
                             !.binMult = <<2047>>, !.binShift = <<4>>],
         err |-> "none"]
    ELSE IF StrContains(obj.res, <<"i","n","t","x">>) THEN
        LET base == [obj EXCEPT !.gran = <<24>>, !.minLen = <<120>>,
                                !.binMult = <<16383>>, !.binShift = <<1>>]
            tail == StrAfterLast(obj.res, "x")
        IN  IF ~IsDecimal(tail) THEN [obj |-> base, err |-> "ValueError"]
            ELSE [obj |-> [base EXCEPT !.intFactor = <<DecimalValue(tail)>>,
                                       !.idleGran = IdleGranAfter(base, DecimalValue(tail))],
                  err |-> "none"]
    ELSE [obj |-> obj, err |-> "AwgError:resolution"]

\* M8190A.set_resolution: res takes the instrument's answer, then check_resolution.
set_resolution(obj, reply) ==
    check_resolution([obj EXCEPT !.res = StrLower(StrStrip(reply))])

(***************************************************************************)
(* Quantization.                                                           *)
(***************************************************************************)
\* float -> integer conversion of np.array(..., dtype=<int>): the fraction is
\* dropped (truncation toward zero).  The value is num / den.
FloatToInt(num, den) ==
    IF num >= 0 THEN num \div den ELSE 0 - ((0 - num) \div den)

\* Two's-complement wraparound into a signed / unsigned integer of the given width.
WrapSigned(x, bits) == ((x + 2 ^ (bits - 1)) % (2 ^ bits)) - 2 ^ (bits - 1)

WrapUnsigned(x, bits) == x % (2 ^ bits)

\* ndarray.byteswap() of a 16-bit element, on its bit pattern.
ByteSwap16(u) == (u % 256) * 256 + (u \div 256)

\* np.array(binMult * wfm, dtype=np.intN) << binShift, per sample.
QuantizeSample(num, binMult, binShift, bits) ==
    WrapSigned(WrapSigned(FloatToInt(binMult * num, SampleDen), bits) * (2 ^ binShift), bits)

\* LengthCheck with the length compared by <= (an off-by-one at the minimum).
LengthCheckOffByOne(rl, minLen, gran) ==
    IF rl <= minLen THEN "length"
    ELSE IF rl % gran /= 0 THEN "granularity"
    ELSE "none"

\* The two checks every check_wfm makes, in the code's order.
LengthCheck(rl, minLen, gran) ==
    IF rl < minLen THEN "length"
    ELSE IF rl % gran /= 0 THEN "granularity"
    ELSE "none"

(***************************************************************************)
(* The instrument objects after __init__.                                  *)
(***************************************************************************)
\* M8190A.__init__: res from the instrument, then check_resolution; a raise
\* leaves no object.
NewM8190A ==
    { set_resolution(FreshM8190A, reply).obj :
        reply \in {r \in DwidthReplies : set_resolution(FreshM8190A, r).err = "none"} }

NewM8195A == [cls |-> "M8195A", gran |-> 256, minLen |-> 256, binMult |-> 127, binShift |-> 0]

NewVSG == [cls |-> "VSG", gran |-> 2, minLen |-> 60, binMult |-> 32767]

\* What the instrument may answer to 'radio:arb:information:quantum?' and
\* 'radio:arb:information:slength:minimum?': <<gran, minLen>>.
UxgArbInformation == { <<1, 3>>, <<2, 6>>, <<4, 6>> }

NewUXG ==
    { [cls |-> "UXG", gran |-> a[1], minLen |-> a[2], binMult |-> 32767] :
        a \in UxgArbInformation }

(***************************************************************************)
(* Calls and their outcomes.                                               *)
(***************************************************************************)
\* outcome is "return" or "raise"; err names the exception; val is the value
\* returned; did is what the call had done when it ended: the set of its own
\* steps that ran, or a record of the local variables or attributes it had
\* assigned or read.
Outcome(op, args, outcome, err, val, did) ==
    [op |-> op, args |-> args, outcome |-> outcome, err |-> err, val |-> val, did |-> did]

NoCall == Outcome("none", <<>>, "none", "none", <<>>, {})

\* The waveforms check_wfm is called with: rl samples repeating a short pattern
\* of numerators.
WfmPatterns == { <<a, 0 - a>> : a \in SampleNums } \cup { <<a, 0, 1>> : a \in SampleNums }

Waveform(rl, pat) == [k \in 1..rl |-> pat[((k - 1) % Len(pat)) + 1]]

WfmLengths(minLen, gran) ==
    { n \in {0, minLen - gran, minLen - 1, minLen + 1, minLen + gran + 1} : n >= 0 }
        \cup { minLen + j * gran : j \in 0..MaxGranSteps }

(***************************************************************************)
(* check_wfm of the four classes: the object after the call and the call's *)
(* outcome.  wfm is the sequence of the samples' numerators.               *)
(***************************************************************************)
M8190A_check_wfm(obj, wfm) ==
    LET r == check_resolution(obj)
        o == r.obj
        c == LengthCheck(Len(wfm), o.minLen[1], o.gran[1])
    IN  IF r.err /= "none" THEN
            [obj |-> o, ret |-> Outcome("check_wfm", <<wfm>>, "raise", r.err, <<>>, {})]
        ELSE IF c /= "none" THEN
            [obj |-> o, ret |-> Outcome("check_wfm", <<wfm>>, "raise", "AwgError:" \o c, <<>>, {})]
        ELSE
            [obj |-> o,
             ret |-> Outcome("check_wfm", <<wfm>>, "return", "none",
                             [k \in 1..Len(wfm) |->
                                 QuantizeSample(wfm[k], o.binMult[1], o.binShift[1], 16)],
                             {"quantize"})]

M8195A_check_wfm(obj, wfm) ==
    LET c == LengthCheck(Len(wfm), obj.minLen, obj.gran)
    IN  IF c /= "none" THEN
            [obj |-> obj, ret |-> Outcome("check_wfm", <<wfm>>, "raise", "AwgError:" \o c, <<>>, {})]
        ELSE
            [obj |-> obj,
             ret |-> Outcome("check_wfm", <<wfm>>, "return", "none",
                             [k \in 1..Len(wfm) |->
                                 QuantizeSample(wfm[k], obj.binMult, obj.binShift, 8)],
                             {"quantize"})]

\* np.array(self.binMult * wfm, dtype=np.int16), then .byteswap() if bigEndian
VsgSample(num, binMult, bigEndian) ==
    LET x == WrapSigned(FloatToInt(binMult * num, SampleDen), 16)
    IN  IF bigEndian THEN WrapSigned(ByteSwap16(WrapUnsigned(x, 16)), 16) ELSE x

VSG_check_wfm(obj, wfm, bigEndian) ==
    LET c == LengthCheck(Len(wfm), obj.minLen, obj.gran)
    IN  IF c /= "none" THEN
            [obj |-> obj,
             ret |-> Outcome("check_wfm", <<wfm, bigEndian>>, "raise", "VsgError:" \o c, <<>>, {})]
        ELSE
            [obj |-> obj,
             ret |-> Outcome("check_wfm", <<wfm, bigEndian>>, "return", "none",
                             [k \in 1..Len(wfm) |-> VsgSample(wfm[k], obj.binMult, bigEndian)],
                             {"quantize"})]

\* np.array(self.binMult * wfm, dtype=np.uint16), then .byteswap() if bigEndian.
\* Converting a float below zero to an unsigned integer is undefined in C: the
\* build either wraps it (negCast = "wrap") or saturates it to 0 ("saturate").
UxgSample(num, binMult, bigEndian, negCast) ==
    LET t == FloatToInt(binMult * num, SampleDen)
        x == IF t < 0 /\ negCast = "saturate" THEN 0 ELSE WrapUnsigned(t, 16)
    IN  IF bigEndian THEN ByteSwap16(x) ELSE x

UXG_check_wfm(obj, wfm, bigEndian, negCast) ==
    LET c == LengthCheck(Len(wfm), obj.minLen, obj.gran)
    IN  IF c /= "none" THEN
            [obj |-> obj,
             ret |-> Outcome("check_wfm", <<wfm, bigEndian>>, "raise", "VsgError:" \o c, <<>>, {})]
        ELSE
            [obj |-> obj,
             ret |-> Outcome("check_wfm", <<wfm, bigEndian>>, "return", "none",
                             [k \in 1..Len(wfm) |->
                                 UxgSample(wfm[k], obj.binMult, bigEndian, negCast)],
                             {"quantize"})]

(***************************************************************************)
(* iq_wfm_combiner (M8190A, VSG: int16; UXG: uint16).                      *)
(***************************************************************************)
\* iq[start::2] = src, for iq of 2 * n elements: src fills the n slots when it
\* has n elements, is broadcast when it has one, and numpy raises otherwise.
CanAssignStride(n, src) == Len(src) = n \/ Len(src) = 1

AssignStride(iq, start, src) ==
    [k \in 1..Len(iq) |->
        IF k % 2 = start % 2
        THEN (IF Len(src) = 1 THEN src[1] ELSE src[(k - start) \div 2 + 1])
        ELSE iq[k]]

\* The stored element in the array's dtype.
CastIQ(cls, x) == IF cls = "UXG" THEN WrapUnsigned(x, 16) ELSE WrapSigned(x, 16)

\* np.empty(2 * len(i)): the elements are whatever the memory held; junk stands
\* for them.  Every slot is overwritten before the array is returned.
iq_wfm_combiner(cls, i, q, junk) ==
    LET iq0 == [k \in 1..(2 * Len(i)) |-> junk]
        iq1 == AssignStride(iq0, 1, [k \in 1..Len(i) |-> CastIQ(cls, i[k])])
    IN  IF CanAssignStride(Len(i), q)
        THEN Outcome("iq_wfm_combiner", <<i, q>>, "return", "none",
                     AssignStride(iq1, 2, [k \in 1..Len(q) |-> CastIQ(cls, q[k])]),
                     {"alloc", "store_i", "store_q"})
        ELSE Outcome("iq_wfm_combiner", <<i, q>>, "raise", "ValueError", <<>>,
                     {"alloc", "store_i"})

\* The quantized samples the combiner is handed, in the class's dtype.
IQSamples(cls) == IF cls = "UXG" THEN {1, 65534} ELSE {1, 0 - 2}

SeqsUpTo(S, n) == UNION { [1..m -> S] : m \in 0..n }

(***************************************************************************)
(* Python ints as bit sets.                                                *)
(***************************************************************************)
\* The bit set of a number TLC can hold.
Bits(n) == {p \in 0..30 : (n \div (2 ^ p)) % 2 = 1}

\* a << k, a >> k, a | b, a & b
Shl(a, k) == {p + k : p \in a}

Shr(a, k) == {p - k : p \in {x \in a : x >= k}}

BOr(a, b) == a \cup b

BAnd(a, b) == a \cap b

\* a + b
RECURSIVE BAdd(_, _)
BAdd(a, b) ==
    IF b = {} THEN a ELSE BAdd((a \cup b) \ (a \cap b), Shl(a \cap b, 1))

\* 0xFFFFFFFF and 0xFFFFFFFF00000000
MaskLow32 == 0..31

MaskHigh32 == 32..63

(***************************************************************************)
(* UXG.bin_pdw_builder.                                                    *)
(*                                                                         *)
(* A float argument enters as its scaled value, the number the code hands  *)
(* to int(): freq * 1024, phase * 4096 / 360, startTimeSec * 1e12 and      *)
(* (power + 140) / 0.005, exact, as int + frac / 2^FracBits with int a bit *)
(* set and frac in 0..2^FracBits - 1.  Only values >= 0 are modelled.      *)
(***************************************************************************)
Scaled(int, frac) == [int |-> int, frac |-> frac]

FracDen == 2 ^ FracBits

\* int(x + 0.5) with 0.5 added once more than the code does.
IntOfPlusOneAndHalf(x) ==
    BAdd(IF x.frac + FracDen \div 2 >= FracDen THEN BAdd(x.int, {0}) ELSE x.int, {0})

\* int(x + 0.5)
IntOfPlusHalf(x) ==
    IF x.frac + FracDen \div 2 >= FracDen THEN BAdd(x.int, {0}) ELSE x.int

\* int(x)
IntOf(x) == x.int

\* PdwWords with the markers shifted by 16 instead of 15.
PdwWordsMarkersShifted(d) ==
    LET pdwFormat == Bits(1)
        _freq == IntOfPlusHalf(d.freq)
        _phase == IntOfPlusHalf(d.phase)
        _startTimePs == IntOf(d.startTimeSec)
        _power == IntOfPlusHalf(d.power)
    IN  << BAnd(BOr(BOr(pdwFormat, Shl(d.operation, 3)), Shl(_freq, 5)), MaskLow32),
           BAnd(BOr(Shr(_freq, 27), Shl(_phase, 20)), MaskLow32),
           BAnd(_startTimePs, MaskLow32),
           Shr(BAnd(_startTimePs, MaskHigh32), 32),
           BOr(BOr(BOr(_power, Shl(d.markers, 16)), Shl(d.phaseControl, 27)), Shl(d.rfOff, 28)),
           BOr(BOr(d.wIndex, Shl({}, 16)), Shl(d.wfmMkrMask, 28)) >>

\* The six values the code assigns to pdw[0..5], before they are stored.
PdwWords(d) ==
    LET pdwFormat == Bits(1)
        _freq == IntOfPlusHalf(d.freq)
        _phase == IntOfPlusHalf(d.phase)
        _startTimePs == IntOf(d.startTimeSec)
        _power == IntOfPlusHalf(d.power)
    IN  << BAnd(BOr(BOr(pdwFormat, Shl(d.operation, 3)), Shl(_freq, 5)), MaskLow32),
           BAnd(BOr(Shr(_freq, 27), Shl(_phase, 20)), MaskLow32),
           BAnd(_startTimePs, MaskLow32),
           Shr(BAnd(_startTimePs, MaskHigh32), 32),
           BOr(BOr(BOr(_power, Shl(d.markers, 15)), Shl(d.phaseControl, 27)), Shl(d.rfOff, 28)),
           BOr(BOr(d.wIndex, Shl({}, 16)), Shl(d.wfmMkrMask, 28)) >>

\* pdw[k] = v on an array of np.uint32: a v of 2^32 or more either raises
\* OverflowError or is cut to its low 32 bits, by numpy version and platform
\* (store = "raise" or "wrap").  The values modelled stay below 2^63.
bin_pdw_builder(d, store) ==
    LET w == PdwWords(d)
    IN  IF store = "raise" /\ \E k \in 1..6 : ~(w[k] \subseteq MaskLow32)
        THEN Outcome("bin_pdw_builder", <<d>>, "raise", "OverflowError", <<>>, {})
        ELSE Outcome("bin_pdw_builder", <<d>>, "return", "none",
                     [k \in 1..6 |-> BAnd(w[k], MaskLow32)], {})

(***************************************************************************)
(* UXG.bin_pdw_file_builder.                                               *)
(***************************************************************************)
\* (v).to_bytes(n, byteorder='little'), and the bytes of a np.uint32 on a
\* little-endian machine.
ByteAt(v, j) ==
    LET b == {p \in 0..7 : (8 * j + p) \in v}
    IN  (IF 0 \in b THEN 1 ELSE 0) + (IF 1 \in b THEN 2 ELSE 0)
        + (IF 2 \in b THEN 4 ELSE 0) + (IF 3 \in b THEN 8 ELSE 0)
        + (IF 4 \in b THEN 16 ELSE 0) + (IF 5 \in b THEN 32 ELSE 0)
        + (IF 6 \in b THEN 64 ELSE 0) + (IF 7 \in b THEN 128 ELSE 0)

ToBytes(v, n) == [j \in 1..n |-> ByteAt(v, j - 1)]

\* b''.join(parts)
RECURSIVE JoinBytes(_)
JoinBytes(parts) ==
    IF parts = <<>> THEN <<>> ELSE Head(parts) \o JoinBytes(Tail(parts))

\* header: fileId b'STRM', version, offset, magic b'KEYS', res0, flags, uniqueId,
\* dataId, res1
PdwFileHeader ==
    << <<83, 84, 82, 77>>, ToBytes(Bits(1), 4), ToBytes(BAnd(Shl(Bits(1), 1), 0..21), 4),
       <<75, 69, 89, 83>>, ToBytes({}, 16), ToBytes({}, 4), ToBytes({}, 4),
       ToBytes(Bits(64), 4), ToBytes({}, 4) >>

\* PdwFilePadding with one byte of padData less.
PdwFilePaddingShort ==
    << ToBytes(Bits(1), 4), ToBytes({}, 4), ToBytes(Bits(4016), 8), ToBytes({}, 4015) >>

\* padding: padBlockId, res3, size, padData
PdwFilePadding ==
    << ToBytes(Bits(1), 4), ToBytes({}, 4), ToBytes(Bits(4016), 8), ToBytes({}, 4016) >>

\* pdwBlock: pdwBlockId, res4, pdwSize 0xffffffffffffffff
PdwFileBlock ==
    << ToBytes(Bits(16), 4), ToBytes({}, 4), ToBytes(0..63, 8) >>

\* The file of the records built from pdwList; a record that cannot be built
\* raises out of the call, and so does a failure to write the copy of the file
\* at the path the code names (fileOk = FALSE).
bin_pdw_file_builder(pdwList, store, fileOk) ==
    LET recs == [k \in 1..Len(pdwList) |-> bin_pdw_builder(pdwList[k], store)]
    IN  IF \E k \in 1..Len(pdwList) : recs[k].outcome = "raise"
        THEN Outcome("bin_pdw_file_builder", <<pdwList>>, "raise", "OverflowError", <<>>, {})
        ELSE IF ~fileOk
        THEN Outcome("bin_pdw_file_builder", <<pdwList>>, "raise", "OSError", <<>>, {"join"})
        ELSE Outcome("bin_pdw_file_builder", <<pdwList>>, "return", "none",
                     JoinBytes(PdwFileHeader \o PdwFilePadding \o PdwFileBlock
                               \o [k \in 1..Len(pdwList) |->
                                      JoinBytes([j \in 1..6 |-> ToBytes(recs[k].val[j], 4)])]),
                     {"join", "write"})

(***************************************************************************)
(* The descriptors the encoder is called with.                             *)
(***************************************************************************)
PdwFields ==
    {"operation", "freq", "phase", "startTimeSec", "power", "markers",
     "phaseControl", "rfOff", "wIndex", "wfmMkrMask"}

\* Per field, the values tried; the first is the default of the signature
\* (freq = 1e9, power = 0, the rest 0).  Each list ends with values past the
\* field's width.
PdwFieldValues ==
    [ operation |-> << {}, Bits(3), Bits(4) >>,
      freq |-> << Scaled(Shl(Bits(1000000000), 10), 0),
                  Scaled({}, 1), Scaled({}, FracDen \div 2),
                  Scaled({26, 27}, FracDen - 1), Scaled(0..46, 1),
                  Scaled(0..46, FracDen \div 2), Scaled({47}, 0) >>,
      phase |-> << Scaled({}, 0), Scaled(Bits(1024), 0), Scaled({0}, FracDen - 1),
                   Scaled(0..11, 1), Scaled(0..11, FracDen \div 2) >>,
      startTimeSec |-> << Scaled({}, 0), Scaled({}, FracDen \div 2), Scaled(Bits(1000000), 0),
                          Scaled({31, 32}, FracDen - 1), Scaled(0..63, 1), Scaled({64}, 0) >>,
      power |-> << Scaled(Bits(28000), 0), Scaled({}, 1), Scaled(0..14, FracDen \div 2 - 1),
                   Scaled(0..14, FracDen \div 2) >>,
      markers |-> << {}, 0..11, {12} >>,
      phaseControl |-> << {}, {0}, {1} >>,
      rfOff |-> << {}, {0}, {1}, {4} >>,
      wIndex |-> << {}, 0..15, {16} >>,
      wfmMkrMask |-> << {}, 0..3, {4} >> ]

PdwDefault == [f \in PdwFields |-> PdwFieldValues[f][1]]

\* The descriptors that differ from the default in at most MaxVaried fields.
Descriptors ==
    UNION { { [f \in PdwFields |-> IF f \in S THEN PdwFieldValues[f][g[f]] ELSE PdwDefault[f]] :
                g \in { h \in [S -> 2..7] : \A f \in S : h[f] <= Len(PdwFieldValues[f]) } } :
            S \in { T \in SUBSET PdwFields : Cardinality(T) <= MaxVaried } }

\* The descriptors the file builder's lists are made of.
FileDescriptors ==
    { PdwDefault,
      [PdwDefault EXCEPT !.operation = Bits(3), !.freq = Scaled({26, 27}, 1),
                         !.startTimeSec = Scaled({31, 32}, 0), !.wfmMkrMask = 0..3],
      [PdwDefault EXCEPT !.rfOff = {4}] }

(***************************************************************************)
(* Actions.                                                                *)
(***************************************************************************)
\* No call is in flight.
NoFrames == [chk |-> [pc |-> "idle"], set |-> [pc |-> "idle"], dl |-> [pc |-> "idle"]]

Init ==
    /\ inst \in NewM8190A \cup {NewM8195A, NewVSG} \cup NewUXG
    /\ ret = NoCall
    /\ frames = NoFrames

SetResolution ==
    /\ inst.cls = "M8190A"
    /\ ret = NoCall
    /\ \E reply \in DwidthReplies :
          LET r == set_resolution(inst, reply)
          IN  /\ inst' = r.obj
              /\ ret' = Outcome("set_resolution", <<reply>>,
                                IF r.err = "none" THEN "return" ELSE "raise", r.err, <<>>, {})
    /\ UNCHANGED frames

CheckResolution ==
    /\ inst.cls = "M8190A"
    /\ ret = NoCall
    /\ LET r == check_resolution(inst)
       IN  /\ inst' = r.obj
           /\ ret' = Outcome("check_resolution", <<>>,
                             IF r.err = "none" THEN "return" ELSE "raise", r.err, <<>>, {})
    /\ UNCHANGED frames

CheckWfmM8190A ==
    /\ inst.cls = "M8190A"
    /\ ret = NoCall
    /\ \E pat \in WfmPatterns :
       \E rl \in WfmLengths(check_resolution(inst).obj.minLen[1],
                            check_resolution(inst).obj.gran[1]) :
          LET r == M8190A_check_wfm(inst, Waveform(rl, pat))
          IN  inst' = r.obj /\ ret' = r.ret
    /\ UNCHANGED frames

CheckWfmM8195A ==
    /\ inst.cls = "M8195A"
    /\ ret = NoCall
    /\ \E pat \in WfmPatterns : \E rl \in WfmLengths(inst.minLen, inst.gran) :
          LET r == M8195A_check_wfm(inst, Waveform(rl, pat))
          IN  inst' = r.obj /\ ret' = r.ret
    /\ UNCHANGED frames

CheckWfmVSG ==
    /\ inst.cls = "VSG"
    /\ ret = NoCall
    /\ \E pat \in WfmPatterns : \E rl \in WfmLengths(inst.minLen, inst.gran) :
       \E bigEndian \in BOOLEAN :
          LET r == VSG_check_wfm(inst, Waveform(rl, pat), bigEndian)
          IN  inst' = r.obj /\ ret' = r.ret
    /\ UNCHANGED frames

CheckWfmUXG ==
    /\ inst.cls = "UXG"
    /\ ret = NoCall
    /\ \E pat \in WfmPatterns : \E rl \in WfmLengths(inst.minLen, inst.gran) :
       \E bigEndian \in BOOLEAN : \E negCast \in {"wrap", "saturate"} :
          LET r == UXG_check_wfm(inst, Waveform(rl, pat), bigEndian, negCast)
          IN  inst' = r.obj /\ ret' = r.ret
    /\ UNCHANGED frames

IqWfmCombiner ==
    /\ inst.cls \in {"M8190A", "VSG", "UXG"}
    /\ ret = NoCall
    /\ \E i \in SeqsUpTo(IQSamples(inst.cls), MaxIQ) :
       \E q \in SeqsUpTo(IQSamples(inst.cls), MaxIQ + 1) :
       \E junk \in {0, 1} :
          ret' = iq_wfm_combiner(inst.cls, i, q, junk)
    /\ UNCHANGED inst
    /\ UNCHANGED frames

BinPdwBuilder ==
    /\ inst.cls = "UXG"
    /\ ret = NoCall
    /\ \E d \in Descriptors : \E store \in {"raise", "wrap"} :
          ret' = bin_pdw_builder(d, store)
    /\ UNCHANGED inst
    /\ UNCHANGED frames

BinPdwFileBuilder ==
    /\ inst.cls = "UXG"
    /\ ret = NoCall
    /\ \E pdwList \in SeqsUpTo(FileDescriptors, MaxPdws) :
       \E store \in {"raise", "wrap"} : \E fileOk \in BOOLEAN :
          ret' = bin_pdw_file_builder(pdwList, store, fileOk)
    /\ UNCHANGED inst
    /\ UNCHANGED frames

\* The caller is done with the outcome of its last call.
DropResult ==
    /\ ret /= NoCall
    /\ ret' = NoCall
    /\ UNCHANGED inst
    /\ UNCHANGED frames

Next ==
    \/ SetResolution
    \/ CheckResolution
    \/ CheckWfmM8190A
    \/ CheckWfmM8195A
    \/ CheckWfmVSG
    \/ CheckWfmUXG
    \/ IqWfmCombiner
    \/ BinPdwBuilder
    \/ BinPdwFileBuilder
    \/ DropResult

Spec == Init /\ [][Next]_vars

(***************************************************************************)
(* Properties.                                                             *)
(***************************************************************************)
IsCall(op) == ret.op = op

Returned(op) == ret.op = op /\ ret.outcome = "return"

\* The field of word w in bits lo..hi, as a number.
Field(w, lo, hi) == Shr(BAnd(w, lo..hi), lo)

\* The integer codes the encoder derived from the float arguments of d.
FreqCode(d) == IntOfPlusHalf(d.freq)

PhaseCode(d) == IntOfPlusHalf(d.phase)

StartCode(d) == IntOf(d.startTimeSec)

PowerCode(d) == IntOfPlusHalf(d.power)

\* Every field of d fits its bit width.
PdwInRange(d) ==
    /\ d.operation \subseteq 0..1
    /\ FreqCode(d) \subseteq 0..46
    /\ PhaseCode(d) \subseteq 0..11
    /\ StartCode(d) \subseteq 0..63
    /\ PowerCode(d) \subseteq 0..14
    /\ d.markers \subseteq 0..11
    /\ d.phaseControl \subseteq {0}
    /\ d.rfOff \subseteq {0}
    /\ d.wIndex \subseteq 0..15
    /\ d.wfmMkrMask \subseteq 0..3

\* The codes read back from the six words.
DecFreq(w) == BOr(Field(w[1], 5, 31), Shl(Field(w[2], 0, 19), 27))

DecPhase(w) == Field(w[2], 20, 31)

DecStart(w) == BOr(w[3], Shl(w[4], 32))

DecPower(w) == Field(w[5], 0, 14)

\* C1: the file bin_pdw_file_builder returns holds 4096 bytes of header, padding
\* block and PDW-block header, then the records in list order, 24 bytes each:
\* record k (from 0) is the bytes 4096 + 24k .. 4096 + 24k + 23, for every n >= 0.
C1_RecordsStartAt4096 ==
    Returned("bin_pdw_file_builder") =>
        LET pdwList == ret.args[1]
            file == ret.val
        IN  /\ Len(file) = 4096 + 24 * Len(pdwList)
            /\ \A k \in 0..(Len(pdwList) - 1) :
                 \E store \in {"raise", "wrap"} :
                    LET rec == bin_pdw_builder(pdwList[k + 1], store)
                    IN  /\ rec.outcome = "return"
                        /\ \A j \in 0..5 :
                             SubSeq(file, 4096 + 24 * k + 4 * j + 1, 4096 + 24 * k + 4 * j + 4)
                                 = ToBytes(rec.val[j + 1], 4)

C1_Witness ==
    /\ Returned("bin_pdw_file_builder")
    /\ Len(ret.args[1]) = 2
    /\ ret.args[1][1] /= ret.args[1][2]

\* The profile check_wfm validated against: the object's minLen and gran.
InstMinLen == IF inst.cls = "M8190A" THEN inst.minLen[1] ELSE inst.minLen

InstGran == IF inst.cls = "M8190A" THEN inst.gran[1] ELSE inst.gran

LengthErrors == {"AwgError:length", "VsgError:length"}

GranularityErrors == {"AwgError:granularity", "VsgError:granularity"}

\* C2: every check_wfm raises the length error when len(wfm) < minLen, else the
\* granularity error when len(wfm) % gran /= 0 (so the length error when both
\* fail), and a raising call has quantized nothing and returns nothing.
C2_LengthThenGranularity ==
    IsCall("check_wfm") =>
        LET rl == Len(ret.args[1])
        IN  /\ rl < InstMinLen => ret.outcome = "raise" /\ ret.err \in LengthErrors
            /\ (rl >= InstMinLen /\ rl % InstGran /= 0) =>
                   ret.outcome = "raise" /\ ret.err \in GranularityErrors
            /\ ret.outcome = "raise" => ret.val = <<>> /\ "quantize" \notin ret.did

\* The same order of checks, for the calls that reach them: every call but a
\* M8190A.check_wfm stopped by check_resolution.
LengthThenGranularityOnceReached ==
    (IsCall("check_wfm") /\ ret.err \notin {"AwgError:resolution", "ValueError"}) =>
        LET rl == Len(ret.args[1])
        IN  /\ rl < InstMinLen => ret.outcome = "raise" /\ ret.err \in LengthErrors
            /\ (rl >= InstMinLen /\ rl % InstGran /= 0) =>
                   ret.outcome = "raise" /\ ret.err \in GranularityErrors
            /\ (rl >= InstMinLen /\ rl % InstGran = 0) =>
                   ret.outcome = "return" /\ Len(ret.val) = rl
            /\ ret.outcome = "raise" => ret.val = <<>> /\ "quantize" \notin ret.did

\* The integers nearest to num / den (two of them on a tie).
Nearest(num, den) ==
    {q \in (FloatToInt(num, den) - 1)..(FloatToInt(num, den) + 1) :
        2 * (IF q * den >= num THEN q * den - num ELSE num - q * den) <= den}

\* C3: check_wfm (M8190A: int16, M8195A: int8) returns, per sample s in [-1, 1],
\* round(binMult * s) shifted left by binShift in the device's integer width.
C3_QuantizeRoundsToNearest ==
    (Returned("check_wfm") /\ inst.cls \in {"M8190A", "M8195A"}) =>
        LET wfm == ret.args[1]
            binMult == IF inst.cls = "M8190A" THEN inst.binMult[1] ELSE inst.binMult
            binShift == IF inst.cls = "M8190A" THEN inst.binShift[1] ELSE inst.binShift
            bits == IF inst.cls = "M8190A" THEN 16 ELSE 8
        IN  \A k \in 1..Len(wfm) :
              \E q \in Nearest(binMult * wfm[k], SampleDen) :
                 ret.val[k] = WrapSigned(q * (2 ^ binShift), bits)

\* C4: for a descriptor whose fields fit their widths the six words are laid out
\* as: word0 = tag 1 (bits 0-2), operation (3-4), low 27 bits of the frequency
\* code (5-31); word1 = high 20 bits of the frequency code (0-19), phase (20-31);
\* word2, word3 = low and high 32 bits of the start time; word4 = power (0-14),
\* markers (15-26), phaseControl (27), rfOff (28); word5 = waveformIndex (0-15),
\* twelve zero bits (16-27), waveformMarkerMask (28-31).
C4_WordLayout ==
    (Returned("bin_pdw_builder") /\ PdwInRange(ret.args[1])) =>
        LET d == ret.args[1]
            w == ret.val
        IN  /\ \A k \in 1..6 : w[k] \subseteq 0..31
            /\ Field(w[1], 0, 2) = {0}
            /\ Field(w[1], 3, 4) = d.operation
            /\ Field(w[1], 5, 31) = BAnd(FreqCode(d), 0..26)
            /\ Field(w[2], 0, 19) = Shr(FreqCode(d), 27)
            /\ Field(w[2], 20, 31) = PhaseCode(d)
            /\ w[3] = BAnd(StartCode(d), 0..31)
            /\ w[4] = Shr(StartCode(d), 32)
            /\ Field(w[5], 0, 14) = PowerCode(d)
            /\ Field(w[5], 15, 26) = d.markers
            /\ Field(w[5], 27, 27) = d.phaseControl
            /\ Field(w[5], 28, 28) = d.rfOff
            /\ Field(w[6], 0, 15) = d.wIndex
            /\ Field(w[6], 16, 27) = {}
            /\ Field(w[6], 28, 31) = d.wfmMkrMask

C4_Witness ==
    /\ Returned("bin_pdw_builder")
    /\ PdwInRange(ret.args[1])
    /\ ret.args[1].markers = 0..11
    /\ ret.args[1].freq.int = {26, 27}

\* code is an integer nearest to the scaled value x.
IsNearest(code, x) ==
    \/ 2 * x.frac <= FracDen /\ code = x.int
    \/ 2 * x.frac >= FracDen /\ code = BAdd(x.int, {0})

\* C5: the codes in the record are the scaled values rounded to the nearest
\* integer: frequency, phase, start time and power alike.
C5_CodesRoundToNearest ==
    (Returned("bin_pdw_builder") /\ PdwInRange(ret.args[1])) =>
        LET d == ret.args[1]
            w == ret.val
        IN  /\ IsNearest(DecFreq(w), d.freq)
            /\ IsNearest(DecPhase(w), d.phase)
            /\ IsNearest(DecStart(w), d.startTimeSec)
            /\ IsNearest(DecPower(w), d.power)

\* A field of d is past its width, as C6 lists them.
PdwOverflows(d) ==
    \/ ~(d.operation \subseteq 0..1)
    \/ ~(FreqCode(d) \subseteq 0..46)
    \/ ~(PhaseCode(d) \subseteq 0..11)
    \/ ~(PowerCode(d) \subseteq 0..14)
    \/ ~(d.markers \subseteq 0..11)
    \/ ~(d.phaseControl \subseteq {0})
    \/ ~(d.rfOff \subseteq {0})
    \/ ~(d.wIndex \subseteq 0..15)
    \/ ~(d.wfmMkrMask \subseteq 0..3)

\* C6: with a field past its width bin_pdw_builder raises and returns no record.
C6_OverflowRaises ==
    (IsCall("bin_pdw_builder") /\ PdwOverflows(ret.args[1])) =>
        ret.outcome = "raise" /\ ret.val = <<>>

\* code is within one step of the scaled value x: |code - x| <= 1.
WithinOneStep(code, x) ==
    \/ code = x.int
    \/ code = BAdd(x.int, {0})
    \/ x.frac = 0 /\ BAdd(code, {0}) = x.int

\* C7: decoding the six words of an in-range descriptor gives back frequency,
\* phase, start time and power within one quantization step each (one unit of
\* the code), and operation, markers, phaseControl, rfOff, waveformIndex and
\* waveformMarkerMask exactly.
C7_RoundTrip ==
    (Returned("bin_pdw_builder") /\ PdwInRange(ret.args[1])) =>
        LET d == ret.args[1]
            w == ret.val
        IN  /\ WithinOneStep(DecFreq(w), d.freq)
            /\ WithinOneStep(DecPhase(w), d.phase)
            /\ WithinOneStep(DecStart(w), d.startTimeSec)
            /\ WithinOneStep(DecPower(w), d.power)
            /\ Field(w[1], 3, 4) = d.operation
            /\ Field(w[5], 15, 26) = d.markers
            /\ Field(w[5], 27, 27) = d.phaseControl
            /\ Field(w[5], 28, 28) = d.rfOff
            /\ Field(w[6], 0, 15) = d.wIndex
            /\ Field(w[6], 28, 31) = d.wfmMkrMask

C7_Witness ==
    /\ Returned("bin_pdw_builder")
    /\ PdwInRange(ret.args[1])
    /\ ret.args[1].freq = Scaled(0..46, 1)
    /\ ret.args[1].startTimeSec.frac = FracDen - 1

\* The constants that belong to the mode named by res; FALSE when res names none.
ModeConstantsHold(o) ==
    LET Four(gran, minLen, binMult, binShift) ==
            /\ o.gran = <<gran>> /\ o.minLen = <<minLen>>
            /\ o.binMult = <<binMult>> /\ o.binShift = <<binShift>>
        Intx(digits, factor, idleGran) ==
            /\ o.res = <<"i","n","t","x">> \o digits
            /\ Four(24, 120, 16383, 1)
            /\ o.intFactor = <<factor>> /\ o.idleGran = <<idleGran>>
    IN  \/ o.res = <<"w","p","r">> /\ Four(48, 240, 8191, 2)
        \/ o.res = <<"w","s","p">> /\ Four(64, 320, 2047, 4)
        \/ Intx(<<"3">>, 3, 8)
        \/ Intx(<<"1","2">>, 12, 2)
        \/ Intx(<<"2","4">>, 24, 1)
        \/ Intx(<<"4","8">>, 48, 1)

\* C8: each M8190A resolution-mode operation either raises and leaves res and
\* the constants as they were, or returns with all of them those of the mode.
C8_ModeSwitchAtomic ==
    [][ (inst.cls = "M8190A"
            /\ ret'.op \in {"set_resolution", "check_resolution", "check_wfm"}) =>
          \/ ret'.outcome = "raise" /\ inst' = inst
          \/ ret'.outcome = "return" /\ ModeConstantsHold(inst') ]_vars

\* res names a mode the code derives a profile for.
ProfileDefined ==
    inst.cls = "M8190A" =>
        \/ inst.res \in {<<"w","p","r">>, <<"w","s","p">>}
        \/ /\ Len(inst.res) > 4
           /\ SubSeq(inst.res, 1, 4) = <<"i","n","t","x">>
           /\ IsDecimal(SubSeq(inst.res, 5, Len(inst.res)))

\* C9: for the profiles the code defines (M8190A wpr, wsp, interpolated; M8195A;
\* VSG) minLen is a multiple of gran, and check_wfm accepts lengths minLen and
\* minLen + gran and rejects minLen - 1 and, when gran > 1, minLen + 1.
C9_Boundaries ==
    (IsCall("check_wfm") /\ inst.cls \in {"M8190A", "M8195A", "VSG"} /\ ProfileDefined) =>
        LET rl == Len(ret.args[1])
        IN  /\ InstMinLen % InstGran = 0
            /\ rl = InstMinLen => ret.outcome = "return"
            /\ rl = InstMinLen - 1 => ret.outcome = "raise"
            /\ rl = InstMinLen + InstGran => ret.outcome = "return"
            /\ (rl = InstMinLen + 1 /\ InstGran > 1) => ret.outcome = "raise"

C9_Witness ==
    /\ Returned("check_wfm")
    /\ inst.cls = "M8190A"
    /\ inst.res = <<"i","n","t","x","1","2">>
    /\ Len(ret.args[1]) = InstMinLen

\* C10: iq_wfm_combiner returns i and q interleaved when they are equally long,
\* and otherwise raises, before the output array is allocated.
C10_CombinerChecksLengths ==
    IsCall("iq_wfm_combiner") =>
        LET i == ret.args[1]
            q == ret.args[2]
        IN  /\ Len(i) = Len(q) =>
                 /\ ret.outcome = "return"
                 /\ Len(ret.val) = 2 * Len(i)
                 /\ \A k \in 1..Len(i) : ret.val[2 * k - 1] = i[k] /\ ret.val[2 * k] = q[k]
            /\ Len(i) /= Len(q) => ret.outcome = "raise" /\ "alloc" \notin ret.did

(***************************************************************************)
(* Symbol mapping (module-level functions bpsk_modulator .. qam32_modulator). *)
(* A complex number is a record of its real and imaginary part in           *)
(* thousandths, so that 0.707 is 707.  A dict is a function on its keys;     *)
(* the optional argument customMap is <<>> for None and <<d>> for a dict d.  *)
(***************************************************************************)
\* The longest bit list handed to a modulator directly.
MaxBits == 8

Pt(re, im) == [re |-> re, im |-> im]

\* A dict literal: entries <<key, re, im>>, a later entry replaces an earlier
\* one with the same key.
RECURSIVE Dict(_)
Dict(entries) ==
    IF entries = <<>> THEN <<>>
    ELSE LET n == Len(entries)
         IN  (entries[n][1] :> Pt(entries[n][2], entries[n][3])) @@ Dict(SubSeq(entries, 1, n - 1))

\* str(d) of a bit
StrOfBit(d) == IF d = 0 THEN "0" ELSE "1"

RECURSIVE JoinStr(_)
JoinStr(s) == IF s = <<>> THEN "" ELSE Head(s) \o JoinStr(Tail(s))

\* [str(d0) + ... for d0, ... in zip(data[0::k], ..., data[k-1::k])]: zip stops
\* with the shortest slice, so leftover bits form no pattern.
Pattern(data, k) ==
    [t \in 1..(Len(data) \div k) |->
        JoinStr([j \in 1..k |-> StrOfBit(data[(t - 1) * k + j])])]

\* if customMap: ... else: the default.  None and an empty dict are both falsy.
MapInUse(customMap, defaultMap) ==
    IF customMap /= <<>> /\ DOMAIN customMap[1] /= {} THEN customMap[1] ELSE defaultMap

\* try: return np.array([map[p] for p in pattern])
\* except KeyError: raise ValueError(...)
MapSymbols(op, data, customMap, pattern, map) ==
    IF \A t \in DOMAIN pattern : pattern[t] \in DOMAIN map
    THEN Outcome(op, <<data, customMap>>, "return", "none",
                 [t \in DOMAIN pattern |-> map[pattern[t]]], {})
    ELSE Outcome(op, <<data, customMap>>, "raise", "ValueError", <<>>, {})

bpskMap == Dict(<< <<"0", 1000, 0>>, <<"1", -1000, 0>> >>)

qpskMap == Dict(<< <<"00", 1000, 1000>>, <<"01", -1000, 1000>>,
                   <<"10", -1000, -1000>>, <<"11", 1000, -1000>> >>)

psk8Map == Dict(<< <<"000", 1000, 0>>, <<"001", 707, 707>>, <<"010", 0, 1000>>,
                   <<"011", -707, 707>>, <<"100", -1000, 0>>, <<"101", -707, -707>>,
                   <<"110", 0, -1000>>, <<"111", 707, -707>> >>)

\* A 16-QAM map with the entries of 1000 and 1100 exchanged.
qam16MapSwapped ==
    Dict(<< <<"0000", -3000, -3000>>, <<"0001", -3000, -1000>>, <<"0010", -3000, 3000>>,
            <<"0011", -3000, 1000>>, <<"0100", -1000, -3000>>, <<"0101", -1000, -1000>>,
            <<"0110", -1000, 3000>>, <<"0111", -1000, 1000>>, <<"1000", 1000, -3000>>,
            <<"1001", 3000, -1000>>, <<"1010", 3000, 3000>>, <<"1011", 3000, 1000>>,
            <<"1100", 3000, -3000>>, <<"1101", 1000, -1000>>, <<"1110", 1000, 3000>>,
            <<"1111", 1000, 1000>> >>)

qam16Map ==
    Dict(<< <<"0000", -3000, -3000>>, <<"0001", -3000, -1000>>, <<"0010", -3000, 3000>>,
            <<"0011", -3000, 1000>>, <<"0100", -1000, -3000>>, <<"0101", -1000, -1000>>,
            <<"0110", -1000, 3000>>, <<"0111", -1000, 1000>>, <<"1000", 3000, -3000>>,
            <<"1001", 3000, -1000>>, <<"1010", 3000, 3000>>, <<"1011", 3000, 1000>>,
            <<"1100", 1000, -3000>>, <<"1101", 1000, -1000>>, <<"1110", 1000, 3000>>,
            <<"1111", 1000, 1000>> >>)

\* The default map of qam32_modulator: the sixteen four-character keys of the
\* 16-QAM map, although its patterns have five characters.
qam32Map ==
    Dict(<< <<"0000", -3000, -3000>>, <<"0001", -3000, -1000>>, <<"0010", -3000, 3000>>,
            <<"0011", -3000, 1000>>, <<"0100", -1000, -3000>>, <<"0101", -1000, -1000>>,
            <<"0110", -1000, 3000>>, <<"0111", -1000, 1000>>, <<"1000", 3000, -3000>>,
            <<"1001", 3000, -1000>>, <<"1010", 3000, 3000>>, <<"1011", 3000, 1000>>,
            <<"1100", 1000, -3000>>, <<"1101", 1000, -1000>>, <<"1110", 1000, 3000>>,
            <<"1111", 1000, 1000>> >>)

bpsk_modulator(data, customMap) ==
    MapSymbols("bpsk_modulator", data, customMap,
               Pattern(data, 1), MapInUse(customMap, bpskMap))

qpsk_modulator(data, customMap) ==
    MapSymbols("qpsk_modulator", data, customMap,
               Pattern(data, 2), MapInUse(customMap, qpskMap))

psk8_modulator(data, customMap) ==
    MapSymbols("psk8_modulator", data, customMap,
               Pattern(data, 3), MapInUse(customMap, psk8Map))

qam16_modulator(data, customMap) ==
    MapSymbols("qam16_modulator", data, customMap,
               Pattern(data, 4), MapInUse(customMap, qam16Map))

qam32_modulator(data, customMap) ==
    MapSymbols("qam32_modulator", data, customMap,
               Pattern(data, 5), MapInUse(customMap, qam32Map))

\* The modulators by name, with the pattern width each one builds and its
\* default map.
Modulators ==
    {"bpsk_modulator", "qpsk_modulator", "psk8_modulator", "qam16_modulator",
     "qam32_modulator"}

Modulator(name, data, customMap) ==
    CASE name = "bpsk_modulator" -> bpsk_modulator(data, customMap)
      [] name = "qpsk_modulator" -> qpsk_modulator(data, customMap)
      [] name = "psk8_modulator" -> psk8_modulator(data, customMap)
      [] name = "qam16_modulator" -> qam16_modulator(data, customMap)
      [] name = "qam32_modulator" -> qam32_modulator(data, customMap)

PatternWidth(name) ==
    CASE name = "bpsk_modulator" -> 1
      [] name = "qpsk_modulator" -> 2
      [] name = "psk8_modulator" -> 3
      [] name = "qam16_modulator" -> 4
      [] name = "qam32_modulator" -> 5

DefaultMap(name) ==
    CASE name = "bpsk_modulator" -> bpskMap
      [] name = "qpsk_modulator" -> qpskMap
      [] name = "psk8_modulator" -> psk8Map
      [] name = "qam16_modulator" -> qam16Map
      [] name = "qam32_modulator" -> qam32Map

\* Every string of k bit characters.
Patterns(k) == { JoinStr([j \in 1..k |-> StrOfBit(b[j])]) : b \in [1..k -> {0, 1}] }

\* The dicts a caller passes as customMap for patterns of width k: a complete
\* one, one without the all-ones pattern, and an empty one.
AllOnes(k) == JoinStr([j \in 1..k |-> "1"])

CallerMap(k) ==
    LET ones == AllOnes(k)
    IN  [p \in Patterns(k) |-> IF p = ones THEN Pt(-500, -500) ELSE Pt(500, 500)]

CustomMaps(k) ==
    LET ones == AllOnes(k)
    IN  { <<>>,
          <<CallerMap(k)>>,
          <<[p \in Patterns(k) \ {ones} |-> Pt(500, 500)]>>,
          <<[p \in {} |-> Pt(0, 0)]>> }

(***************************************************************************)
(* digmod_prbs_generator.                                                  *)
(***************************************************************************)
\* PRBS orders 2..MaxOrder, and sample rates up to MaxSaPerSym samples per symbol.
MaxOrder == 4

MaxSaPerSym == 2

\* Iterations of the repeat loop the model follows before it reports that the
\* loop is still running.
MaxRepeats == 6

\* scipy.signal.max_len_seq(nbits): a Fibonacci shift register of nbits cells,
\* all ones at the start, with the library's feedback tap for each nbits; one
\* period of 2^nbits - 1 bits.
MlsTap(nbits) == CASE nbits = 2 -> 1 [] nbits = 3 -> 2 [] nbits = 4 -> 3
                   [] nbits = 5 -> 3 [] nbits = 6 -> 5 [] nbits = 7 -> 6

RECURSIVE MlsInner(_, _, _, _, _)
MlsInner(state, idx, seq, length, nbits) ==
    IF Len(seq) = length THEN seq
    ELSE LET out == state[idx + 1]
             feedback == (out + state[((MlsTap(nbits) + idx) % nbits) + 1]) % 2
         IN  MlsInner([state EXCEPT ![idx + 1] = feedback], (idx + 1) % nbits,
                      Append(seq, out), length, nbits)

max_len_seq(nbits) == MlsInner([k \in 1..nbits |-> 1], 0, <<>>, 2 ^ nbits - 1, nbits)

\* A tiling that starts each copy at the second element.
TileShifted(temp, repeats) ==
    [k \in 1..(repeats * Len(temp)) |-> temp[(k % Len(temp)) + 1]]

\* np.tile(temp, repeats)
Tile(temp, repeats) ==
    [k \in 1..(repeats * Len(temp)) |-> temp[((k - 1) % Len(temp)) + 1]]

\* while len(bits) % bitsPerSym: bits = np.tile(temp, repeats); repeats += 1
RECURSIVE RepeatLoop(_, _, _, _, _)
RepeatLoop(temp, bits, repeats, bitsPerSym, left) ==
    IF Len(bits) % bitsPerSym = 0 THEN [bits |-> bits, repeats |-> repeats, done |-> TRUE]
    ELSE IF left = 0 THEN [bits |-> bits, repeats |-> repeats, done |-> FALSE]
    ELSE RepeatLoop(temp, Tile(temp, repeats), repeats + 1, bitsPerSym, left - 1)

\* s[-n:] and s[:n] for n > 0
SliceLast(s, n) == SubSeq(s, IF Len(s) > n THEN Len(s) - n + 1 ELSE 1, Len(s))

SliceFirst(s, n) == SubSeq(s, 1, IF Len(s) > n THEN n ELSE Len(s))

\* iq = np.zeros(len(symbols) * saPerSym); iq[::saPerSym] = symbols
ZeroStuff(symbols, saPerSym) ==
    [k \in 1..(Len(symbols) * saPerSym) |->
        IF (k - 1) % saPerSym = 0 THEN symbols[((k - 1) \div saPerSym) + 1] ELSE Pt(0, 0)]

\* The filters a caller passes as filt.  The taps of the default rrc_filter are
\* irrational; the callables here return integer taps: a unit impulse in the
\* middle, an asymmetric pulse that reaches both ends, and three equal taps at
\* the ends and the middle.
Filters == {"impulse", "skewed", "edges"}

FilterTaps(filt, taps) ==
    LET c == ((taps - 1) \div 2) + 1
    IN  [k \in 1..taps |->
            CASE filt = "impulse" -> IF k = c THEN 1 ELSE 0
              [] filt = "skewed" ->
                    IF k = c THEN 2 ELSE IF k = c + 1 THEN 1
                    ELSE IF k = c - 2 THEN -1 ELSE IF k = 1 THEN 1
                    ELSE IF k = taps THEN -1 ELSE 0
              [] filt = "edges" -> IF k \in {1, c, taps} THEN 1 ELSE 0]

\* np.convolve(x, h), mode 'full': out[n] = sum of x[k] * h[n - k], for complex x
\* and real h.
RECURSIVE ConvSum(_, _, _, _, _)
ConvSum(x, h, n, k, hi) ==
    IF k > hi THEN Pt(0, 0)
    ELSE LET rest == ConvSum(x, h, n, k + 1, hi)
         IN  Pt(x[k].re * h[n - k + 1] + rest.re, x[k].im * h[n - k + 1] + rest.im)

Convolve(x, h) ==
    [n \in 1..(Len(x) + Len(h) - 1) |->
        ConvSum(x, h, n, IF n > Len(h) THEN n - Len(h) + 1 ELSE 1,
                IF n < Len(x) THEN n ELSE Len(x))]

\* iq[taps-1:-taps+1]: a negative stop counts from the end, a stop of -0 is 0.
TrimEnds(iq, taps) ==
    LET start == IF taps - 1 > Len(iq) THEN Len(iq) ELSE taps - 1
        stop == IF taps - 1 = 0 THEN 0
                ELSE IF Len(iq) - (taps - 1) < 0 THEN 0 ELSE Len(iq) - (taps - 1)
    IN  SubSeq(iq, start + 1, stop)

\* np.amax of a complex array: numpy orders complex numbers by their real part
\* and then by their imaginary part.
LexLess(a, b) == a.re < b.re \/ (a.re = b.re /\ a.im < b.im)

AMax(iq) == iq[CHOOSE k \in DOMAIN iq : \A j \in DOMAIN iq : ~LexLess(iq[k], iq[j])]

SqMag(z) == z.re * z.re + z.im * z.im

ModTypes ==
    { <<"b","p","s","k">>, <<"Q","P","S","K">>, <<"8","p","s","k">>, <<"8","P","S","K">>,
      <<"q","a","m","1","6">>, <<"Q","A","M","1","6">>, <<"q","a","m","3","2">>,
      <<"Q","A","M","3","2">>, <<"f","s","k">> }

\* The outcome of digmod_prbs_generator(modType, fs, symRate, prbsOrder, filt):
\* alpha is only handed on to filt.  The returned waveform is kept as the
\* samples before scaling (iq) and the square of the divisor (sFactor2): sample
\* k is 0.707 * iq[k] / sqrt(sFactor2).  The field did holds the local
\* variables the call had assigned when it ended.
digmod_prbs_generator(modType, fs, symRate, prbsOrder, filt) ==
    LET args == <<modType, fs, symRate, prbsOrder, filt>>
        saPerSym == fs \div symRate
        filterSymbolLength == 10
        lower == StrLower(modType)
        known == lower \in { <<"b","p","s","k">>, <<"q","p","s","k">>,
                             <<"8","p","s","k">>, <<"q","a","m","1","6">> }
        bitsPerSym == CASE lower = <<"b","p","s","k">> -> 1
                        [] lower = <<"q","p","s","k">> -> 2
                        [] lower = <<"8","p","s","k">> -> 3
                        [] lower = <<"q","a","m","1","6">> -> 4
        modulator == CASE lower = <<"b","p","s","k">> -> "bpsk_modulator"
                       [] lower = <<"q","p","s","k">> -> "qpsk_modulator"
                       [] lower = <<"8","p","s","k">> -> "psk8_modulator"
                       [] lower = <<"q","a","m","1","6">> -> "qam16_modulator"
        temp == max_len_seq(prbsOrder)
        loop == RepeatLoop(temp, temp, 1, bitsPerSym, MaxRepeats)
        mapped == Modulator(modulator, loop.bits, <<>>).val
        half == filterSymbolLength \div 2
        symbols == SliceLast(mapped, half) \o mapped \o SliceFirst(mapped, half)
        taps == filterSymbolLength * saPerSym + 1
        filter == FilterTaps(filt, taps)
        full == Convolve(ZeroStuff(symbols, saPerSym), filter)
        iq == TrimEnds(full, taps)
        sFactor2 == SqMag(AMax(iq))
        start == [saPerSym |-> saPerSym, bitsPerSym |-> bitsPerSym, modulator |-> modulator,
                  bits |-> loop.bits, repeats |-> loop.repeats, mapped |-> mapped]
    IN  IF ~known
        THEN \* raise ValueError('Invalid modType chosen.')
             Outcome("digmod_prbs_generator", args, "raise", "ValueError", <<>>,
                     [saPerSym |-> saPerSym])
        ELSE IF ~loop.done
        THEN Outcome("digmod_prbs_generator", args, "running", "none", <<>>,
                     [saPerSym |-> saPerSym, bitsPerSym |-> bitsPerSym])
        ELSE IF saPerSym = 0
        THEN \* iq[::0]: ValueError, slice step cannot be zero
             Outcome("digmod_prbs_generator", args, "raise", "ValueError", <<>>, start)
        ELSE IF iq = <<>>
        THEN \* np.amax of an empty array: ValueError
             Outcome("digmod_prbs_generator", args, "raise", "ValueError", <<>>,
                     [saPerSym |-> saPerSym, bitsPerSym |-> bitsPerSym,
                      modulator |-> modulator, bits |-> loop.bits,
                      repeats |-> loop.repeats, mapped |-> mapped,
                      taps |-> taps, filter |-> filter, iq |-> iq])
        ELSE Outcome("digmod_prbs_generator", args, "return", "none",
                     [iq |-> iq, sFactor2 |-> sFactor2],
                     [saPerSym |-> saPerSym, bitsPerSym |-> bitsPerSym,
                      modulator |-> modulator, bits |-> loop.bits,
                      repeats |-> loop.repeats, mapped |-> mapped,
                      taps |-> taps, filter |-> filter, iq |-> iq])

(***************************************************************************)
(* rrc_filter and rc_filter.  Times are kept as numerators over 2 * fs     *)
(* (half sample periods); the rolloff a is a fraction n/d.  Both impulse   *)
(* responses are even functions of t with irrational values, so a tap is   *)
(* kept as the branch of the code that computed it and the |t| it was      *)
(* computed at.                                                            *)
(***************************************************************************)
\* np.linspace(-taps / 2, taps / 2, taps, endpoint=False), in halves: element k
\* is start + k * (stop - start) / taps.
Linspace2(taps) ==
    [k \in 1..taps |-> (0 - taps) + ((k - 1) * (taps - (0 - taps))) \div taps]

Rolloffs == { [n |-> 0, d |-> 1], [n |-> 1, d |-> 4], [n |-> 1, d |-> 2], [n |-> 7, d |-> 20] }

AbsInt(x) == IF x < 0 THEN 0 - x ELSE x

\* The branch taken for the tap at t = t2 / (2 * fs), with tau = 1 / symRate:
\* t == 0.0, then a != 0 and t == +-tau / (div * a), then the general formula;
\* div is 4 in rrc_filter and 2 in rc_filter.
\* t2 / (2 fs) = d / (div * n * symRate)  iff  t2 * div * n * symRate = 2 * fs * d
TapBranch(t2, a, symRate, fs, div) ==
    IF t2 = 0 THEN "zero"
    ELSE IF a.n /= 0 /\ AbsInt(t2) * div * a.n * symRate = 2 * fs * a.d THEN "singular"
    ELSE "general"

FilterOutcome(op, taps, a, symRate, fs, div) ==
    LET time == Linspace2(taps)
    IN  Outcome(op, <<taps, a, symRate, fs>>, "return", "none",
                [time |-> time,
                 h |-> [x \in 1..taps |->
                          [branch |-> TapBranch(time[x], a, symRate, fs, div),
                           at |-> AbsInt(time[x])]]],
                {})

rrc_filter(taps, a, symRate, fs) == FilterOutcome("rrc_filter", taps, a, symRate, fs, 4)

rc_filter(taps, a, symRate, fs) == FilterOutcome("rc_filter", taps, a, symRate, fs, 2)

(***************************************************************************)
(* barker_generator.  length and fs are whole numbers here (seconds and    *)
(* samples per second); the quotient length / len(code) * fs is taken      *)
(* exactly.  A phase is kept in quarter turns (pi / 2).                    *)
(***************************************************************************)
MaxBarkerFs == 9

barkerCodes ==
    [code \in {"b2", "b3", "b41", "b42", "b5", "b7", "b11", "b13"} |->
        CASE code = "b2" -> <<1, -1>>
          [] code = "b3" -> <<1, 1, -1>>
          [] code = "b41" -> <<1, 1, -1, 1>>
          [] code = "b42" -> <<1, 1, 1, -1>>
          [] code = "b5" -> <<1, 1, 1, -1, 1>>
          [] code = "b7" -> <<1, 1, 1, -1, -1, 1, -1>>
          [] code = "b11" -> <<1, 1, 1, -1, -1, -1, 1, -1, -1, 1, -1>>
          [] code = "b13" -> <<1, 1, 1, 1, 1, -1, -1, 1, 1, -1, 1, -1, 1>>]

\* np.exp(1j * quarters * pi / 2)
ExpQuarter(quarters) ==
    CASE quarters % 4 = 0 -> Pt(1, 0)
      [] quarters % 4 = 1 -> Pt(0, 1)
      [] quarters % 4 = 2 -> Pt(-1, 0)
      [] quarters % 4 = 3 -> Pt(0, -1)

\* mod = np.pi / 2 * barker: the phase of chip p, in quarter turns
BarkerPhase(p) == p

barker_generator(length, fs, code, zeroLast) ==
    LET args == <<length, fs, code, zeroLast>>
    IN  IF code \notin DOMAIN barkerCodes
        THEN Outcome("barker_generator", args, "raise", "KeyError", <<>>, {})
        ELSE LET chips == barkerCodes[code]
                 \* int(length / len(barkerCodes[code]) * fs)
                 codeSamples == (length * fs) \div Len(chips)
                 barker == [k \in 1..(Len(chips) * codeSamples) |->
                               chips[((k - 1) \div codeSamples) + 1]]
                 iq == [k \in DOMAIN barker |-> ExpQuarter(BarkerPhase(barker[k]))]
             IN  IF zeroLast /\ iq = <<>>
                 THEN \* iq[-1] = 0 + 0j on an empty array
                      Outcome("barker_generator", args, "raise", "IndexError", <<>>, {})
                 ELSE LET out == IF zeroLast THEN [iq EXCEPT ![Len(iq)] = Pt(0, 0)] ELSE iq
                      IN  Outcome("barker_generator", args, "return", "none",
                                  [i |-> [k \in DOMAIN out |-> out[k].re],
                                   q |-> [k \in DOMAIN out |-> out[k].im]], {})

(***************************************************************************)
(* Two threads on one M8190A object: "chk" calls check_wfm while "set"     *)
(* calls set_resolution.  The methods take no lock and keep no copy of the *)
(* object's attributes, so the threads interleave between any two accesses *)
(* of an attribute of self; a step below is one such access.               *)
(***************************************************************************)
\* The four attributes each branch of check_resolution assigns.
ModeProfile(branch) ==
    CASE branch = "wpr" -> [gran |-> 48, minLen |-> 240, binMult |-> 8191, binShift |-> 2]
      [] branch = "wsp" -> [gran |-> 64, minLen |-> 320, binMult |-> 2047, binShift |-> 4]
      [] branch = "intx" -> [gran |-> 24, minLen |-> 120, binMult |-> 16383, binShift |-> 1]

\* The answers to 'trace1:dwidth?' in the two-thread runs.
ConcReplies ==
    { <<"W","S","P","\n">>, <<"W","P","R","\n">>, <<"I","N","T","X","3","\n">>,
      <<"D","A","C","\n">> }

\* The frame of a call that has just entered check_resolution.
EnterCheckResolution(wfm) ==
    [pc |-> "cmp_wpr", branch |-> "none", wfm |-> wfm, used |-> <<>>]

\* The frame after check_resolution has returned to its caller.
LeaveCheckResolution(t, f) ==
    IF t = "chk" THEN [f EXCEPT !.pc = "rd_minLen"] ELSE [pc |-> "idle"]

\* The outcome the caller of thread t sees when the call raises err; the
\* result of set_resolution is not kept.
Raised(t, f, err) ==
    IF t = "chk" THEN Outcome("check_wfm", <<f.wfm>>, "raise", err, <<>>, f.used) ELSE ret

ConcInit ==
    /\ inst \in NewM8190A
    /\ ret = NoCall
    /\ frames = NoFrames

\* check_wfm(wfm) is called with 240 samples, a length every mode but 'wsp'
\* accepts: self.check_resolution() is entered.
ChkCall ==
    /\ ret = NoCall
    /\ frames.chk.pc = "idle"
    /\ \E pat \in {<<1, 0 - 1>>} :
          frames' = [frames EXCEPT !.chk = EnterCheckResolution(Waveform(240, pat))]
    /\ UNCHANGED <<inst, ret>>

\* set_resolution(res): the write, the query and self.res = ..., then
\* self.check_resolution() is entered.
SetCall ==
    /\ frames.set.pc = "idle"
    /\ \E reply \in ConcReplies :
          inst' = [inst EXCEPT !.res = StrLower(StrStrip(reply))]
    /\ frames' = [frames EXCEPT !.set = EnterCheckResolution(<<>>)]
    /\ UNCHANGED ret

\* check_resolution: one comparison of self.res.
Compare(t) ==
    LET f == frames[t]
        hit(branch) == /\ frames' = [frames EXCEPT ![t] = [f EXCEPT !.pc = "set_gran",
                                                                     !.branch = branch]]
                       /\ UNCHANGED ret
        miss(pc) == frames' = [frames EXCEPT ![t] = [f EXCEPT !.pc = pc]] /\ UNCHANGED ret
    IN  /\ f.pc \in {"cmp_wpr", "cmp_wsp", "cmp_intx"}
        /\ \/ /\ f.pc = "cmp_wpr"
              /\ IF inst.res = <<"w","p","r">> THEN hit("wpr") ELSE miss("cmp_wsp")
           \/ /\ f.pc = "cmp_wsp"
              /\ IF inst.res = <<"w","s","p">> THEN hit("wsp") ELSE miss("cmp_intx")
           \/ /\ f.pc = "cmp_intx"
              /\ IF StrContains(inst.res, <<"i","n","t","x">>) THEN hit("intx")
                 ELSE /\ frames' = [frames EXCEPT ![t] = [pc |-> "idle"]]
                      /\ ret' = Raised(t, f, "AwgError:resolution")
        /\ UNCHANGED inst

\* check_resolution: one of the assignments self.gran = ..., self.minLen = ...,
\* self.binMult = ..., self.binShift = ..., in this order.
Assign(t) ==
    LET f == frames[t]
        p == ModeProfile(f.branch)
        goto(pc) == frames' = [frames EXCEPT ![t] = [f EXCEPT !.pc = pc]]
    IN  /\ f.pc \in {"set_gran", "set_minLen", "set_binMult", "set_binShift"}
        /\ \/ f.pc = "set_gran" /\ inst' = [inst EXCEPT !.gran = <<p.gran>>]
                                /\ goto("set_minLen")
           \/ f.pc = "set_minLen" /\ inst' = [inst EXCEPT !.minLen = <<p.minLen>>]
                                  /\ goto("set_binMult")
           \/ f.pc = "set_binMult" /\ inst' = [inst EXCEPT !.binMult = <<p.binMult>>]
                                   /\ goto("set_binShift")
           \/ /\ f.pc = "set_binShift"
              /\ inst' = [inst EXCEPT !.binShift = <<p.binShift>>]
              /\ IF f.branch = "intx" THEN goto("set_int")
                 ELSE frames' = [frames EXCEPT ![t] = LeaveCheckResolution(t, f)]
        /\ UNCHANGED ret

\* check_resolution, interpolated modes: self.intFactor = int(self.res.split('x')[-1])
\* and the idleGran branches, then the return.
AssignInt(t) ==
    LET f == frames[t]
        tail == StrAfterLast(inst.res, "x")
    IN  /\ f.pc = "set_int"
        /\ IF IsDecimal(tail)
           THEN /\ inst' = [inst EXCEPT !.intFactor = <<DecimalValue(tail)>>,
                                        !.idleGran = IdleGranAfter(inst, DecimalValue(tail))]
                /\ frames' = [frames EXCEPT ![t] = LeaveCheckResolution(t, f)]
                /\ UNCHANGED ret
           ELSE /\ frames' = [frames EXCEPT ![t] = [pc |-> "idle"]]
                /\ ret' = Raised(t, f, "ValueError")
                /\ UNCHANGED inst

\* check_wfm: if rl < self.minLen: raise
ChkReadMinLen ==
    LET f == frames.chk
        used == f.used @@ ("minLen" :> inst.minLen[1])
    IN  /\ f.pc = "rd_minLen"
        /\ IF Len(f.wfm) < inst.minLen[1]
           THEN /\ frames' = [frames EXCEPT !.chk = [pc |-> "idle"]]
                /\ ret' = Raised("chk", [f EXCEPT !.used = used], "AwgError:length")
           ELSE /\ frames' = [frames EXCEPT !.chk = [f EXCEPT !.pc = "rd_gran", !.used = used]]
                /\ UNCHANGED ret
        /\ UNCHANGED inst

\* check_wfm: if rl % self.gran != 0: raise
ChkReadGran ==
    LET f == frames.chk
        used == f.used @@ ("gran" :> inst.gran[1])
    IN  /\ f.pc = "rd_gran"
        /\ IF Len(f.wfm) % inst.gran[1] /= 0
           THEN /\ frames' = [frames EXCEPT !.chk = [pc |-> "idle"]]
                /\ ret' = Raised("chk", [f EXCEPT !.used = used], "AwgError:granularity")
           ELSE /\ frames' = [frames EXCEPT !.chk = [f EXCEPT !.pc = "rd_binMult", !.used = used]]
                /\ UNCHANGED ret
        /\ UNCHANGED inst

\* check_wfm: self.binMult * wfm
ChkReadBinMult ==
    LET f == frames.chk
    IN  /\ f.pc = "rd_binMult"
        /\ frames' = [frames EXCEPT !.chk = [f EXCEPT !.pc = "rd_binShift",
                                                      !.used = f.used @@ ("binMult" :> inst.binMult[1])]]
        /\ UNCHANGED <<inst, ret>>

\* check_wfm: return np.array(..., dtype=np.int16) << self.binShift
ChkReturn ==
    LET f == frames.chk
        used == f.used @@ ("binShift" :> inst.binShift[1])
    IN  /\ f.pc = "rd_binShift"
        /\ frames' = [frames EXCEPT !.chk = [pc |-> "idle"]]
        /\ ret' = Outcome("check_wfm", <<f.wfm>>, "return", "none",
                          [k \in 1..Len(f.wfm) |->
                              QuantizeSample(f.wfm[k], used.binMult, used.binShift, 16)],
                          used)
        /\ UNCHANGED inst

ConcNext ==
    \/ ChkCall
    \/ SetCall
    \/ \E t \in {"chk", "set"} : Compare(t)
    \/ \E t \in {"chk", "set"} : Assign(t)
    \/ \E t \in {"chk", "set"} : AssignInt(t)
    \/ ChkReadMinLen
    \/ ChkReadGran
    \/ ChkReadBinMult
    \/ ChkReturn
    \/ DropResult

ConcSpec == ConcInit /\ [][ConcNext]_vars

(***************************************************************************)
(* The download methods: download_wfm of M8190A and M8195A, download_iq_wfm *)
(* of M8190A, VSG and UXG.  A call is a frame that moves from statement to  *)
(* statement; sent is the list of the commands the call has handed to the   *)
(* transport (query, write, binblockwrite) so far.                          *)
(***************************************************************************)
DownloadOps(cls) ==
    CASE cls = "M8190A" -> {"download_wfm", "download_iq_wfm"}
      [] cls = "M8195A" -> {"download_wfm"}
      [] cls \in {"VSG", "UXG"} -> {"download_iq_wfm"}

Cmd(via, cmd) == [via |-> via, cmd |-> cmd]

\* A method that selects the waveform before it writes the data.
TransportPlanSelectFirst(cls, assign) ==
    IF cls \in {"M8190A", "M8195A"}
    THEN <<Cmd("query", "trace:catalog?"), Cmd("write", "trace:def"),
           Cmd("binblockwrite", "trace:data")>>
    ELSE <<Cmd("write", "radio:arb:waveform"), Cmd("binblockwrite", "memory:data")>>

\* The transport statements of a download method after its waveform is ready,
\* in the order of the code.
TransportPlan(cls, assign) ==
    IF cls \in {"M8190A", "M8195A"}
    THEN <<Cmd("query", "trace:catalog?"), Cmd("write", "trace:def"),
           Cmd("binblockwrite", "trace:data")>>
    ELSE IF cls = "VSG"
    THEN <<Cmd("binblockwrite", "mmemory:data"), Cmd("write", "radio:arb:waveform")>>
    ELSE <<Cmd("binblockwrite", "memory:data")>>
         \o (IF assign THEN <<Cmd("write", "radio:arb:waveform")>> ELSE <<>>)

\* self.check_wfm(wfm) of the object's class, with the default bigEndian.
ClassCheckWfm(obj, wfm, negCast) ==
    CASE obj.cls = "M8190A" -> M8190A_check_wfm(obj, wfm)
      [] obj.cls = "M8195A" -> M8195A_check_wfm(obj, wfm)
      [] obj.cls = "VSG" -> VSG_check_wfm(obj, wfm, TRUE)
      [] obj.cls = "UXG" -> UXG_check_wfm(obj, wfm, TRUE, negCast)

\* What the instrument may answer to 'trace:catalog?': segment id and length
\* pairs, and answers without two fields or without a number.
CatalogReplies ==
    { <<"0",",","0","\n">>, <<"1",",","3","2","0","\n">>, <<"\n">>, <<"x",",","0","\n">> }

\* s.split(c)[-2] as <<field>>, or <<>> when there are fewer than two fields
PenultimateField(s, c) ==
    LET at == {k \in 1..Len(s) : s[k] = c}
    IN  IF at = {} THEN <<>>
        ELSE LET last == CHOOSE k \in at : \A j \in at : j <= k
                 before == {k \in at : k < last}
                 from == IF before = {} THEN 0
                         ELSE CHOOSE k \in before : \A j \in before : j <= k
             IN  <<SubSeq(s, from + 1, last - 1)>>

\* int(self.query(...).strip().split(',')[-2]) + 1: the exception, or "none"
SegIndexError(reply) ==
    LET field == PenultimateField(StrStrip(reply), ",")
    IN  IF field = <<>> THEN "IndexError"
        ELSE IF ~IsDecimal(field[1]) THEN "ValueError"
        ELSE "none"

\* The M8190A objects a program can hold: after __init__, and after one more
\* set_resolution call, returned or raised.
M8190AObjects ==
    NewM8190A \cup { set_resolution(o, reply).obj : o \in NewM8190A, reply \in DwidthReplies }

\* How a download call ends: nothing is returned; did tells what the call had
\* sent, at which statement it ended and how many waveforms it had quantized.
DownloadOutcome(f, outcome, err) ==
    Outcome(f.op, f.args, outcome, err, <<>>,
            [sent |-> f.sent, at |-> f.pc, checked |-> Len(f.done)])

DownloadInit ==
    /\ inst \in M8190AObjects \cup {NewM8195A, NewVSG} \cup NewUXG
    /\ ret = NoCall
    /\ frames = NoFrames

\* The minLen and gran the object holds (wrapped in a M8190A).
HeldMinLen == IF inst.cls = "M8190A" THEN inst.minLen[1] ELSE inst.minLen

HeldGran == IF inst.cls = "M8190A" THEN inst.gran[1] ELSE inst.gran

\* A download method is called.
DownloadCall ==
    /\ ret = NoCall
    /\ frames.dl.pc = "idle"
    /\ \E op \in DownloadOps(inst.cls) :
       \E rl \in WfmLengths(HeldMinLen, HeldGran) :
       \E rq \in WfmLengths(HeldMinLen, HeldGran) :
       \E assign \in BOOLEAN :
          /\ op = "download_wfm" => rq = 0 /\ assign
          /\ inst.cls /= "UXG" => assign
          /\ LET args == IF op = "download_wfm" THEN <<Waveform(rl, <<1, 0 - 1>>)>>
                         ELSE <<Waveform(rl, <<1, 0 - 1>>), Waveform(rq, <<0 - 1, 0, 1>>)>>
             IN  frames' = [frames EXCEPT !.dl =
                               [pc |-> "check", op |-> op, args |-> args, assign |-> assign,
                                todo |-> args, done |-> <<>>, data |-> <<>>,
                                plan |-> <<>>, sent |-> <<>>]]
    /\ UNCHANGED <<inst, ret>>

\* wfm = self.check_wfm(wfm), or i = self.check_wfm(i) and then
\* q = self.check_wfm(q): one call of check_wfm.
DownloadCheck ==
    LET f == frames.dl
    IN  /\ f.pc = "check"
        /\ \E negCast \in {"wrap", "saturate"} :
              LET r == ClassCheckWfm(inst, Head(f.todo), negCast)
                  done == Append(f.done, r.ret.val)
              IN  /\ inst' = r.obj
                  /\ IF r.ret.outcome = "raise"
                     THEN /\ ret' = DownloadOutcome(f, "raise", r.ret.err)
                          /\ frames' = [frames EXCEPT !.dl = [pc |-> "idle"]]
                     ELSE /\ UNCHANGED ret
                          /\ frames' = [frames EXCEPT !.dl =
                                IF Tail(f.todo) /= <<>>
                                THEN [f EXCEPT !.todo = Tail(f.todo), !.done = done]
                                ELSE IF f.op = "download_iq_wfm"
                                THEN [f EXCEPT !.todo = <<>>, !.done = done, !.pc = "combine"]
                                ELSE [f EXCEPT !.todo = <<>>, !.done = done, !.pc = "send",
                                               !.data = done[1],
                                               !.plan = TransportPlan(inst.cls, f.assign)]]

\* iq = self.iq_wfm_combiner(i, q)
DownloadCombine ==
    LET f == frames.dl
    IN  /\ f.pc = "combine"
        /\ \E junk \in {0, 1} :
              LET c == iq_wfm_combiner(inst.cls, f.done[1], f.done[2], junk)
              IN  IF c.outcome = "raise"
                  THEN /\ ret' = DownloadOutcome(f, "raise", c.err)
                       /\ frames' = [frames EXCEPT !.dl = [pc |-> "idle"]]
                  ELSE /\ UNCHANGED ret
                       /\ frames' = [frames EXCEPT !.dl =
                                        [f EXCEPT !.pc = "send", !.data = c.val,
                                                  !.plan = TransportPlan(inst.cls, f.assign)]]
        /\ UNCHANGED inst

\* The next transport statement: the command is sent; the answer to the query
\* is parsed into segIndex, which can raise.
DownloadSend ==
    LET f == frames.dl
    IN  /\ f.pc = "send"
        /\ f.plan /= <<>>
        /\ LET g == [f EXCEPT !.sent = Append(f.sent, Head(f.plan)), !.plan = Tail(f.plan)]
           IN  IF Head(f.plan).via = "query"
               THEN \E reply \in CatalogReplies :
                       IF SegIndexError(reply) /= "none"
                       THEN /\ ret' = DownloadOutcome(g, "raise", SegIndexError(reply))
                            /\ frames' = [frames EXCEPT !.dl = [pc |-> "idle"]]
                       ELSE /\ UNCHANGED ret
                            /\ frames' = [frames EXCEPT !.dl = g]
               ELSE /\ UNCHANGED ret
                    /\ frames' = [frames EXCEPT !.dl = g]
        /\ UNCHANGED inst

\* The method returns after its last statement.
DownloadReturn ==
    LET f == frames.dl
    IN  /\ f.pc = "send"
        /\ f.plan = <<>>
        /\ ret' = DownloadOutcome([f EXCEPT !.pc = "end"], "return", "none")
        /\ frames' = [frames EXCEPT !.dl = [pc |-> "idle"]]
        /\ UNCHANGED inst

DownloadNext ==
    \/ DownloadCall
    \/ DownloadCheck
    \/ DownloadCombine
    \/ DownloadSend
    \/ DownloadReturn
    \/ DropResult

DownloadSpec == DownloadInit /\ [][DownloadNext]_vars

(***************************************************************************)
(* Waveform generation without an instrument: the module-level functions   *)
(* are called by a program that has opened no instrument connection.       *)
(***************************************************************************)
NoInstrument == [cls |-> "none"]

GenInit ==
    /\ inst = NoInstrument
    /\ ret = NoCall
    /\ frames = NoFrames

Modulate ==
    /\ ret = NoCall
    /\ \E name \in Modulators :
       \E data \in SeqsUpTo({0, 1}, MaxBits) :
       \E customMap \in CustomMaps(PatternWidth(name)) :
          ret' = Modulator(name, data, customMap)
    /\ UNCHANGED inst
    /\ UNCHANGED frames

\* fs / symRate is fs / 2 here: 0 to MaxSaPerSym samples per symbol, whole and
\* fractional ratios.
DigMod ==
    /\ ret = NoCall
    /\ \E modType \in ModTypes :
       \E fs \in 1..(2 * MaxSaPerSym + 1) :
       \E prbsOrder \in 2..MaxOrder :
       \E filt \in Filters :
          ret' = digmod_prbs_generator(modType, fs, 2, prbsOrder, filt)
    /\ UNCHANGED inst
    /\ UNCHANGED frames

\* The filters are called with the tap counts digmod_prbs_generator hands
\* them and with every smaller count.
FilterCall ==
    /\ ret = NoCall
    /\ \E taps \in 1..(10 * MaxSaPerSym + 1) :
       \E a \in Rolloffs :
       \E fs \in 1..(2 * MaxSaPerSym + 1) :
          \/ ret' = rrc_filter(taps, a, 2, fs)
          \/ ret' = rc_filter(taps, a, 2, fs)
    /\ UNCHANGED inst
    /\ UNCHANGED frames

BarkerGenerator ==
    /\ ret = NoCall
    /\ \E length \in 1..3 :
       \E fs \in 1..MaxBarkerFs :
       \E code \in DOMAIN barkerCodes \cup {"b6"} :
       \E zeroLast \in BOOLEAN :
          ret' = barker_generator(length, fs, code, zeroLast)
    /\ UNCHANGED inst
    /\ UNCHANGED frames

GenNext ==
    \/ Modulate
    \/ DigMod
    \/ FilterCall
    \/ BarkerGenerator
    \/ DropResult

GenSpec == GenInit /\ [][GenNext]_vars

\* C12: a modulator of width k maps the consecutive k-bit tuples of its input,
\* in order, through the caller's map when one is supplied and through its
\* default map otherwise, and returns one point per tuple; when a tuple has
\* no entry in that map the call raises and returns no symbols.
C12_TuplesMappedOrError ==
    (ret.op \in Modulators) =>
        LET k == PatternWidth(ret.op)
            data == ret.args[1]
            customMap == ret.args[2]
            map == IF customMap /= <<>> THEN customMap[1] ELSE DefaultMap(ret.op)
            n == Len(data) \div k
            tuple(t) == JoinStr([j \in 1..k |-> StrOfBit(SubSeq(data, (t - 1) * k + 1, t * k)[j])])
        IN  IF \A t \in 1..n : tuple(t) \in DOMAIN map
            THEN /\ ret.outcome = "return"
                 /\ Len(ret.val) = n
                 /\ \A t \in 1..n : ret.val[t] = map[tuple(t)]
            ELSE /\ ret.outcome = "raise"
                 /\ ret.err = "ValueError"
                 /\ ret.val = <<>>

\* The same with "supplied" read as the code reads it: a dict with entries.
TuplesMappedOrErrorForNonEmptyMaps ==
    (ret.op \in Modulators /\ ret.args[2] /= <<[p \in {} |-> Pt(0, 0)]>>) =>
        C12_TuplesMappedOrError

\* C13: the default map of the modulator called has exactly the 2^k patterns
\* of its width k as keys, and no two keys share a point.
C13_DefaultMapsBijective ==
    (ret.op \in Modulators) =>
        LET k == PatternWidth(ret.op)
            map == DefaultMap(ret.op)
        IN  /\ DOMAIN map = Patterns(k)
            /\ Cardinality(DOMAIN map) = 2 ^ k
            /\ \A p, q \in DOMAIN map : p /= q => map[p] /= map[q]

\* The four default maps whose keys have the width of the patterns.
DefaultMapsBijectiveExceptQam32 ==
    (ret.op \in Modulators \ {"qam32_modulator"}) => C13_DefaultMapsBijective

Adjacent(a, b) ==
    \/ a.re = b.re /\ (a.im - b.im = 2000 \/ b.im - a.im = 2000)
    \/ a.im = b.im /\ (a.re - b.re = 2000 \/ b.re - a.re = 2000)

\* The pairs of four-character keys that differ in exactly one bit.
OneBitApart ==
    LET B == [1..4 -> {0, 1}]
        key(x) == JoinStr([j \in 1..4 |-> StrOfBit(x[j])])
        near(x) == { y \in B : Cardinality({j \in 1..4 : x[j] /= y[j]}) = 1 }
    IN  UNION { { <<key(x), key(y)>> : y \in near(x) } : x \in B }

\* C14: in the default map qam16_modulator uses, the points are the sixteen
\* points of the grid {-3,-1,1,3} x {-3,-1,1,3}, and two keys whose points are
\* horizontal or vertical neighbours (distance 2) differ in exactly one bit.
C14_Qam16GrayCoded ==
    (ret.op = "qam16_modulator" /\ ret.args[2] = <<>>) =>
        LET map == MapInUse(ret.args[2], qam16Map)
        IN  /\ {map[p] : p \in DOMAIN map} =
                   {Pt(re, im) : re \in {-3000, -1000, 1000, 3000},
                                 im \in {-3000, -1000, 1000, 3000}}
            /\ \A p, q \in DOMAIN map :
                   Adjacent(map[p], map[q]) => <<p, q>> \in OneBitApart

\* Two consecutive symbols of a default-map 16-QAM call are neighbours.
C14_Witness ==
    /\ Returned("qam16_modulator")
    /\ ret.args[2] = <<>>
    /\ Len(ret.val) = 2
    /\ Adjacent(ret.val[1], ret.val[2])

\* C11: for a supported modType and a PRBS order of 2 or more, with at least
\* one sample per symbol, digmod_prbs_generator returns N * samplesPerSymbol
\* samples, N the number of mapped symbols, and sample m (before scaling) is
\* the circular convolution of the zero-stuffed train of those N symbols with
\* the filter, taken at the filter's middle tap: no filter delay is left and
\* the waveform repeats without a seam.
RECURSIVE CircSum(_, _, _, _)
CircSum(x, h, m, i) ==
    IF i > Len(h) THEN Pt(0, 0)
    ELSE LET c == (Len(h) - 1) \div 2
             z == x[(((m - 1) + c - (i - 1)) % Len(x)) + 1]
             rest == CircSum(x, h, m, i + 1)
         IN  Pt(z.re * h[i] + rest.re, z.im * h[i] + rest.im)

CircularConvolutionHolds ==
    LET s == ret.did.saPerSym
        x == ZeroStuff(ret.did.mapped, s)
        h == FilterTaps(ret.args[5], 10 * s + 1)
    IN  /\ ret.outcome = "return"
        /\ Len(ret.val.iq) = Len(ret.did.mapped) * s
        /\ \A m \in 1..Len(x) : ret.val.iq[m] = CircSum(x, h, m, 1)

C11_CircularConvolution ==
    (IsCall("digmod_prbs_generator") /\ "mapped" \in DOMAIN ret.did /\ ret.did.saPerSym > 0) =>
        CircularConvolutionHolds

\* The same for calls with at least filterSymbolLength / 2 = 5 mapped symbols.
CircularConvolutionFromFiveSymbols ==
    (/\ IsCall("digmod_prbs_generator") /\ "mapped" \in DOMAIN ret.did
     /\ ret.did.saPerSym > 0 /\ Len(ret.did.mapped) >= 5) =>
        CircularConvolutionHolds

\* C15: digmod_prbs_generator accepts bpsk, qpsk, 8psk, qam16 and qam32 in any
\* letter case, with 1, 2, 3, 4 and 5 bits per symbol and the modulator of that
\* type; any other modType raises ValueError before a bit is generated.
ModTypeDispatched ==
    LET lower == StrLower(ret.args[1])
        bps == CASE lower = <<"b","p","s","k">> -> 1
                 [] lower = <<"q","p","s","k">> -> 2
                 [] lower = <<"8","p","s","k">> -> 3
                 [] lower = <<"q","a","m","1","6">> -> 4
                 [] lower = <<"q","a","m","3","2">> -> 5
                 [] OTHER -> 0
    IN  IF bps > 0
        THEN /\ "modulator" \in DOMAIN ret.did
             /\ ret.did.bitsPerSym = bps
             /\ PatternWidth(ret.did.modulator) = bps
        ELSE /\ ret.outcome = "raise"
             /\ ret.err = "ValueError"
             /\ "bits" \notin DOMAIN ret.did

C15_ModTypeDispatch == IsCall("digmod_prbs_generator") => ModTypeDispatched

\* The same for every modType but qam32.
ModTypeDispatchExceptQam32 ==
    (/\ IsCall("digmod_prbs_generator")
     /\ StrLower(ret.args[1]) /= <<"q","a","m","3","2">>) => ModTypeDispatched

\* C18: for PRBS order n, L = 2^n - 1, and b bits per symbol (1..4), the repeat
\* loop ends and leaves the base sequence repeated r times, r the smallest
\* positive integer with (r * L) mod b = 0.
C18_RepeatLoopMinimal ==
    (IsCall("digmod_prbs_generator") /\ "bitsPerSym" \in DOMAIN ret.did) =>
        LET n == ret.args[4]
            L == 2 ^ n - 1
            b == ret.did.bitsPerSym
            r == CHOOSE q \in 1..b :
                    (q * L) % b = 0 /\ \A p \in 1..(q - 1) : (p * L) % b /= 0
            base == max_len_seq(n)
        IN  /\ b \in 1..4
            /\ Len(base) = L
            /\ ret.outcome /= "running"
            /\ Len(ret.did.bits) = r * L
            /\ \A k \in 1..(r * L) : ret.did.bits[k] = base[((k - 1) % L) + 1]

\* 15 bits with 4 bits per symbol: four copies.
C18_Witness ==
    /\ Returned("digmod_prbs_generator")
    /\ ret.args[4] = 4
    /\ ret.did.bitsPerSym = 4
    /\ Len(ret.did.bits) = 60

\* C19: the returned samples are iq / sFactor * 0.707; their largest magnitude
\* is 0.707: |iq[k]| <= sFactor for every k, with equality for some k.
C19_PeakIsNormalized ==
    Returned("digmod_prbs_generator") =>
        /\ ret.val.sFactor2 > 0
        /\ \A k \in DOMAIN ret.val.iq : SqMag(ret.val.iq[k]) <= ret.val.sFactor2
        /\ \E k \in DOMAIN ret.val.iq : SqMag(ret.val.iq[k]) = ret.val.sFactor2

\* C20: the tap count digmod_prbs_generator asks for, 10 * samplesPerSymbol + 1,
\* is odd; a filter of such a count has its middle tap, index (taps - 1) / 2, at
\* t = 0, computed by the t = 0 branch, and the other taps mirror each other
\* about it.
IsDigmodTapCount(taps) == taps > 1 /\ taps % 10 = 1

C20_CentreTap ==
    /\ (IsCall("digmod_prbs_generator") /\ "taps" \in DOMAIN ret.did) =>
          /\ ret.did.taps = 10 * ret.did.saPerSym + 1
          /\ ret.did.taps % 2 = 1
    /\ (Returned("rrc_filter") /\ IsDigmodTapCount(ret.args[1])) =>
          LET taps == ret.args[1]
              mid == ((taps - 1) \div 2) + 1
          IN  /\ ret.val.time[mid] = 0
              /\ ret.val.h[mid].branch = "zero"
              /\ \A k \in 1..taps :
                    /\ ret.val.time[taps + 1 - k] = 0 - ret.val.time[k]
                    /\ ret.val.h[taps + 1 - k] = ret.val.h[k]

\* What the time vector is instead: tap k (from 0) lies at (k - taps / 2) * dt,
\* so an odd count has its middle tap half a sample before t = 0 and no tap at
\* t = 0, and only an even count has one, at index taps / 2.
TimeVectorStartsAtMinusHalfSpan ==
    (Returned("rrc_filter") \/ Returned("rc_filter")) =>
        LET taps == ret.args[1]
        IN  /\ \A k \in 1..taps : ret.val.time[k] = 2 * (k - 1) - taps
            /\ taps % 2 = 1 =>
                  /\ ret.val.time[((taps - 1) \div 2) + 1] = -1
                  /\ \A k \in 1..taps : ret.val.h[k].branch /= "zero"
            /\ taps % 2 = 0 => ret.val.h[(taps \div 2) + 1].branch = "zero"

\* round(n / d) for n >= 0 and d > 0, ties to the even neighbour.
RoundDiv(n, d) ==
    LET lo == n \div d
    IN  IF 2 * (n % d) < d THEN lo
        ELSE IF 2 * (n % d) > d THEN lo + 1
        ELSE IF lo % 2 = 0 THEN lo ELSE lo + 1

\* C16: for a catalog code and zeroLast = False, barker_generator returns
\* len(code) runs of round(length / len(code) * fs) samples each; the run of
\* a +1 chip has I = 1, Q = 0 (phase 0) and the run of a -1 chip has I = -1,
\* Q = 0 (phase pi), so opposite chips are pi apart.
C16_BarkerRuns ==
    (/\ IsCall("barker_generator")
     /\ ret.args[3] \in DOMAIN barkerCodes
     /\ ret.args[4] = FALSE) =>
        LET chips == barkerCodes[ret.args[3]]
            run == RoundDiv(ret.args[1] * ret.args[2], Len(chips))
        IN  /\ ret.outcome = "return"
            /\ Len(ret.val.i) = Len(chips) * run
            /\ Len(ret.val.q) = Len(chips) * run
            /\ \A c \in 1..Len(chips) : \A j \in 1..run :
                  LET k == (c - 1) * run + j
                  IN  /\ chips[c] = 1 => ret.val.i[k] = 1 /\ ret.val.q[k] = 0
                      /\ chips[c] = -1 => ret.val.i[k] = -1 /\ ret.val.q[k] = 0

\* What the function returns: runs of floor(length / len(code) * fs) samples,
\* a +1 chip at phase pi/2 (I = 0, Q = 1) and a -1 chip at phase -pi/2
\* (I = 0, Q = -1); opposite chips are still pi apart.
BarkerRunsTruncatedAtQuarterTurns ==
    (/\ IsCall("barker_generator")
     /\ ret.args[3] \in DOMAIN barkerCodes
     /\ ret.args[4] = FALSE) =>
        LET chips == barkerCodes[ret.args[3]]
            run == (ret.args[1] * ret.args[2]) \div Len(chips)
        IN  /\ ret.outcome = "return"
            /\ Len(ret.val.i) = Len(chips) * run
            /\ \A c \in 1..Len(chips) : \A j \in 1..run :
                  LET k == (c - 1) * run + j
                  IN  ret.val.i[k] = 0 /\ ret.val.q[k] = chips[c]

\* C17: a check_wfm call that runs while another thread switches the
\* resolution mode validates and quantizes with the constants of one mode:
\* the minLen and gran it compared against and the binMult and binShift it
\* quantized with all belong to the same resolution mode.
C17_OneModePerCall ==
    IsCall("check_wfm") =>
        \E branch \in {"wpr", "wsp", "intx"} :
            \A a \in DOMAIN ret.did : ret.did[a] = ModeProfile(branch)[a]

\* C21: a download call sends nothing to the instrument before every input
\* waveform is validated and quantized: a call that raises in check_wfm, for
\* the waveform, for I, or for Q after I passed, has sent no query, write or
\* binary block; a call that returns has written the data block, and before
\* any command that selects the waveform.
InputsOf(op) == IF op = "download_wfm" THEN 1 ELSE 2

C21_ValidateBeforeTransport ==
    /\ (frames.dl.pc /= "idle" /\ frames.dl.sent /= <<>>) =>
          Len(frames.dl.done) = InputsOf(frames.dl.op)
    /\ (ret.op \in {"download_wfm", "download_iq_wfm"}) =>
          /\ ret.did.checked < InputsOf(ret.op) =>
                ret.outcome = "raise" /\ ret.did.sent = <<>>
          /\ ret.outcome = "return" =>
                \E b \in DOMAIN ret.did.sent :
                   /\ ret.did.sent[b].via = "binblockwrite"
                   /\ \A j \in DOMAIN ret.did.sent :
                         ret.did.sent[j].cmd = "radio:arb:waveform" => b < j

\* Q is rejected after I passed: nothing was sent.
C21_Witness ==
    /\ ret.op = "download_iq_wfm"
    /\ ret.outcome = "raise"
    /\ ret.did.checked = 1
    /\ ret.did.sent = <<>>

====
